---------------------------- MODULE Spec2Model ----------------------------
(***************************************************************************)
(* A model of the kafer debugger core: the hardware-breakpoint table       *)
(* (src/breakpoints.rs), the projection of the table onto the debug        *)
(* registers of every thread, and the debug-event loop with the scoped     *)
(* release of a DebugEvent (kafer-core/src/lib.rs, src/events.rs), and the *)
(* module registry with its symbol lookups (kafer-core/src/processes.rs),  *)
(* the stack walk (src/stack.rs, src/stack/stack_unwind.rs) and the reads  *)
(* of the MemorySource (src/memory.rs).                                    *)
(*                                                                         *)
(* 64-bit and 32-bit registers that are used as bit fields (DR6, DR7,      *)
(* EFLAGS) are modelled as the set of the positions of their 1 bits, so    *)
(* that shifts drop the bits that leave the register and masks are exact.  *)
(***************************************************************************)
EXTENDS Integers, Sequences, FiniteSets, TLC

VARIABLES
    breakpoints,   \* BreakpointManager.breakpoints : [Option<Breakpoint>; 4]
    threads,       \* Process.threads : Vec<u32>
    modules,       \* Process.modules : Vec<Module>
    osModules,     \* platform: the images mapped in the target, by base
    osAlive,       \* platform: the ids of the threads that exist in the target
    osCtx,         \* platform: the CPU context of every thread of the target
    osMemory,      \* platform: the memory of the target that a stack walk reads
    event,         \* the DebugEvent in flight (None between events)
    frames,        \* stack_frames: the frames gathered by the walk under way
    state,         \* where the front-end loop is
    calls,         \* platform calls issued by the release of the last event
    last,          \* the last BreakpointManager call, its argument and result
    nEvents,       \* number of debug events waited for so far
    nOps           \* number of front-end / harness operations so far

vars == <<breakpoints, threads, modules, osModules, osAlive, osCtx, osMemory,
          event, frames, state, calls, last, nEvents, nOps>>

---------------------------------------------------------------------------
(* Bounds of the model. *)

\* Breakpoint addresses are drawn from 0..MaxAddr.
MaxAddr == 2
\* clear_breakpoint is called with ids 0..MaxClearId (usize: ids >= 4 exist).
MaxClearId == 4

\* Thread ids are 1..MaxThreads.
MaxThreads == 2
\* The harness of apply_breakpoints makes at most MaxOps calls.
MaxOps == 4

\* The event loop waits for at most MaxEvents debug events ...
MaxEvents == 4
\* ... and the front-end gives at most MaxCmds commands that change the table.
MaxCmds == 1
\* The platform reports at most MaxLoads DLL loads.
MaxLoads == 2
\* A stack walk is followed for at most MaxFrames frames.
MaxFrames == 8
\* At most MaxRecords records can be read at an address, or are asked for.
MaxRecords == 2
\* An unwind-code stream is made of at most MaxCodes logical ops.
MaxCodes == 2
\* A RUNTIME_FUNCTION table has at most MaxFunctions entries.
MaxFunctions == 2
MaxFields == 3

Addrs == 0 .. MaxAddr
\* Where the table is only one part of the state, the lowest and the highest
\* address stand for all.
SomeAddrs == {0, MaxAddr}
ThreadIds == 1 .. MaxThreads

---------------------------------------------------------------------------
(* Option<T>: None is the empty sequence, Some(v) the one-element one. *)

None == <<>>
Some(v) == <<v>>
Unwrap(o) == o[1]

Min(S) == CHOOSE x \in S : \A y \in S : x <= y

---------------------------------------------------------------------------
(* Registers as sets of bit positions. *)

U64Bits == 0 .. 63
\* x << n on a u64: bits that leave the register are dropped.
Shl64(x, n) == { b + n : b \in { c \in x : c + n <= 63 } }
Not64(x) == U64Bits \ x
And64(x, y) == x \cap y
Or64(x, y) == x \cup y
\* The literals 1 and 0b1111.
Lit1 == {0}
Lit1111 == {0, 1, 2, 3}

---------------------------------------------------------------------------
(* BreakpointManager: the table. *)

\* [Option<Breakpoint>; 4]
NumSlots == 4
Slots == 0 .. (NumSlots - 1)

Breakpoint(addr, id) == [addr |-> addr, id |-> id]

\* BreakpointManager::new
NewBreakpointManager == [i \in Slots |-> None]

\* add_breakpoint with the first empty slot taken from the top of the table:
\* a plausible slip in the iteration order.
add_breakpoint_last_free(bps, addr) ==
    LET free == { i \in Slots : bps[i] = None }
    IN  IF free = {}
        THEN [bps |-> bps, ret |-> None]
        ELSE LET id == CHOOSE x \in free : \A y \in free : y <= x
             IN  [bps |-> [bps EXCEPT ![id] = Some(Breakpoint(addr, id))],
                  ret |-> Some(id)]

\* add_breakpoint: the first slot, in index order, that is None is filled and
\* its index returned; None when no slot is None.
add_breakpoint(bps, addr) ==
    LET free == { i \in Slots : bps[i] = None }
    IN  IF free = {}
        THEN [bps |-> bps, ret |-> None]
        ELSE LET id == Min(free)
             IN  [bps |-> [bps EXCEPT ![id] = Some(Breakpoint(addr, id))],
                  ret |-> Some(id)]

RECURSIVE FilterMap(_, _)
\* iter().copied().filter_map(|b| b).collect() from index i on
FilterMap(bps, i) ==
    IF i >= NumSlots THEN <<>>
    ELSE (IF bps[i] = None THEN <<>> ELSE <<Unwrap(bps[i])>>)
         \o FilterMap(bps, i + 1)

\* list_breakpoints that stops at the first empty slot.
list_breakpoints_prefix(bps) ==
    LET n == IF \E i \in Slots : bps[i] = None
             THEN Min({ i \in Slots : bps[i] = None }) ELSE NumSlots
    IN  [k \in 1 .. n |-> Unwrap(bps[k - 1])]

\* list_breakpoints
list_breakpoints(bps) == FilterMap(bps, 0)

\* clear_breakpoint that removes the slot and shifts the later ones down.
clear_breakpoint_shift(bps, id) ==
    IF id \in Slots
    THEN [bps |-> [i \in Slots |->
                     IF i < id THEN bps[i]
                     ELSE IF i + 1 \in Slots THEN bps[i + 1] ELSE None],
          panic |-> FALSE]
    ELSE [bps |-> bps, panic |-> TRUE]

\* clear_breakpoint: self.breakpoints[id] = None; indexing a 4-element array
\* with id >= 4 panics.
clear_breakpoint(bps, id) ==
    IF id \in Slots
    THEN [bps |-> [bps EXCEPT ![id] = None], panic |-> FALSE]
    ELSE [bps |-> bps, panic |-> TRUE]

\* was_breakpoint_hit: the first idx in 0..4 with (Dr6 << idx) != 0.
was_breakpoint_hit(bps, ctx) ==
    LET hits == { idx \in DOMAIN bps : Shl64(ctx.Dr6, idx) # {} }
    IN  IF hits = {} THEN None ELSE Some(Min(hits))


---------------------------------------------------------------------------
(* BreakpointManager::apply_breakpoints and the platform calls it makes.   *)

\* A platform call as it is logged: the function, the thread and what it was
\* given or what became of it.
Call(fn, tid, arg) == [fn |-> fn, tid |-> tid, arg |-> arg]

\* match idx { 0 => ctx.Dr0 = addr, ... 3 => ctx.Dr3 = addr }
SetDr(ctx, idx, addr) ==
    CASE idx = 0 -> [ctx EXCEPT !.Dr0 = addr]
      [] idx = 1 -> [ctx EXCEPT !.Dr1 = addr]
      [] idx = 2 -> [ctx EXCEPT !.Dr2 = addr]
      [] idx = 3 -> [ctx EXCEPT !.Dr3 = addr]

GetDr(ctx, idx) ==
    CASE idx = 0 -> ctx.Dr0
      [] idx = 1 -> ctx.Dr1
      [] idx = 2 -> ctx.Dr2
      [] idx = 3 -> ctx.Dr3

\* apply_slot with the RW/LEN field of slot idx taken to start at bit
\* 16 + 2*idx (the stride of the enable bits) instead of 16 + 4*idx.
apply_slot_wrong_field(ctx, idx, bp) ==
    IF bp # None
    THEN LET c1 == SetDr(ctx, idx, Unwrap(bp).addr)
             d1 == And64(c1.Dr7, Not64(Shl64(Lit1111, idx * 2 + 16)))
             d2 == Or64(d1, Shl64(Lit1, idx * 2))
         IN  [c1 EXCEPT !.Dr7 = d2]
    ELSE [ctx EXCEPT !.Dr7 = And64(ctx.Dr7, Not64(Shl64(Lit1, idx * 2)))]

\* apply_slot with the enable bit toggled (^) instead of set (|).
apply_slot_toggle(ctx, idx, bp) ==
    IF bp # None
    THEN LET c1 == SetDr(ctx, idx, Unwrap(bp).addr)
             d1 == And64(c1.Dr7, Not64(Shl64(Lit1111, idx * 4 + 16)))
             e  == Shl64(Lit1, idx * 2)
             d2 == (d1 \ e) \cup (e \ d1)
         IN  [c1 EXCEPT !.Dr7 = d2]
    ELSE [ctx EXCEPT !.Dr7 = And64(ctx.Dr7, Not64(Shl64(Lit1, idx * 2)))]

\* apply_slot that also resets the debug register and the RW/LEN field of
\* an empty slot.
apply_slot_resets_empty(ctx, idx, bp) ==
    IF bp # None
    THEN LET c1 == SetDr(ctx, idx, Unwrap(bp).addr)
             d1 == And64(c1.Dr7, Not64(Shl64(Lit1111, idx * 4 + 16)))
             d2 == Or64(d1, Shl64(Lit1, idx * 2))
         IN  [c1 EXCEPT !.Dr7 = d2]
    ELSE LET c1 == SetDr(ctx, idx, 0)
             d1 == And64(c1.Dr7, Not64(Shl64(Lit1111, idx * 4 + 16)))
         IN  [c1 EXCEPT !.Dr7 = And64(d1, Not64(Shl64(Lit1, idx * 2)))]

\* The body of the loop over the table: slot idx holding bp (or None) is
\* written into ctx.
apply_slot(ctx, idx, bp) ==
    IF bp # None
    THEN LET c1 == SetDr(ctx, idx, Unwrap(bp).addr)
             \* ctx.Dr7 & !(0b1111 << (idx * 4 + 16))
             d1 == And64(c1.Dr7, Not64(Shl64(Lit1111, idx * 4 + 16)))
             \* ctx.Dr7 | (1 << (idx * 2))
             d2 == Or64(d1, Shl64(Lit1, idx * 2))
         IN  [c1 EXCEPT !.Dr7 = d2]
    ELSE \* ctx.Dr7 & !(1 << (idx * 2))
         [ctx EXCEPT !.Dr7 = And64(ctx.Dr7, Not64(Shl64(Lit1, idx * 2)))]

RECURSIVE apply_slots(_, _, _)
\* for (idx, bp) in self.breakpoints.iter().enumerate(), from idx on
apply_slots(bps, ctx, idx) ==
    IF idx >= NumSlots THEN ctx
    ELSE apply_slots(bps, apply_slot(ctx, idx, bps[idx]), idx + 1)

\* The resume flag, RFLAGS bit 16: 1 << 16.
ResumeFlagBit == 16

\* set_resume_flag that sets the flag in every thread.
set_resume_flag_always(ctx, thread_id, resume_thread_id) ==
    [ctx EXCEPT !.EFlags = ctx.EFlags \cup {ResumeFlagBit}]

\* if *thread_id == resume_thread_id { ctx.EFlags = ctx.EFlags | (1 << 16) }
set_resume_flag(ctx, thread_id, resume_thread_id) ==
    IF thread_id = resume_thread_id
    THEN [ctx EXCEPT !.EFlags = ctx.EFlags \cup {ResumeFlagBit}]
    ELSE ctx

\* OpenThread succeeds for a thread that exists in the target and fails for
\* an id that names no thread (the thread has exited).
OpenThreadOk(alive, tid) == tid \in alive

RECURSIVE apply_threads(_, _, _, _, _, _, _)
\* for thread_id in process.threads(), from position k on: open the thread,
\* get its context, write the table into it, set the resume flag, set the
\* context.  The first platform failure returns Err (the ? operator): the
\* threads after it are not visited, the ones before it stay written.
apply_threads(bps, thread_list, k, resume_thread_id, alive, ctxs, log) ==
    IF k > Len(thread_list)
    THEN [ok |-> TRUE, ctxs |-> ctxs, calls |-> log]
    ELSE LET thread_id == thread_list[k]
         IN  IF ~OpenThreadOk(alive, thread_id)
             THEN [ok |-> FALSE, ctxs |-> ctxs,
                   calls |-> Append(log, Call("OpenThread", thread_id, "failed"))]
             ELSE LET fetched == ctxs[thread_id]
                      written == set_resume_flag(apply_slots(bps, fetched, 0),
                                                 thread_id, resume_thread_id)
                  IN  apply_threads(bps, thread_list, k + 1, resume_thread_id,
                          alive,
                          [ctxs EXCEPT ![thread_id] = written],
                          Append(log, Call("SetThreadContext", thread_id, "ok")))

\* apply_breakpoints(process, resume_thread_id)
apply_breakpoints(bps, thread_list, resume_thread_id, alive, ctxs) ==
    apply_threads(bps, thread_list, 1, resume_thread_id, alive, ctxs, <<>>)

---------------------------------------------------------------------------
(* Thread contexts (AlignedContext): the fields the debugger reads or      *)
(* writes.  Dr0..Dr3 hold addresses; Dr6, Dr7 (u64) and EFlags (u32) are   *)
(* sets of bit positions.                                                  *)

\* AlignedContext::ALL before GetThreadContext fills it: zero_context().
ZeroContext ==
    [Dr0 |-> 0, Dr1 |-> 0, Dr2 |-> 0, Dr3 |-> 0,
     Dr6 |-> {}, Dr7 |-> {}, EFlags |-> {}]

\* DR6 values the platform reports: nothing, one of B0..B3, several of them,
\* BS (bit 14, single step) alone or with a breakpoint bit, the top bit.
Dr6Inputs == << {}, {0}, {1}, {2}, {3}, {0, 1}, {1, 3}, {14}, {2, 14}, {63} >>

---------------------------------------------------------------------------
(* The breakpoint table driven directly through the public methods of     *)
(* BreakpointManager, starting from BreakpointManager::new().             *)

\* op: the method; arg: its argument; ret: what it returned; pre: the state it
\* started from; hist: what the call is known to undo or to repeat.
LastCall(op, arg, ret, pre, hist) ==
    [op |-> op, arg |-> arg, ret |-> ret, pre |-> pre, hist |-> hist]

NoCall == LastCall("new", 0, None, NewBreakpointManager, None)

TableInit ==
    /\ breakpoints = NewBreakpointManager
    /\ threads = <<>>
    /\ osAlive = {}
    /\ osCtx = <<>>
    /\ event = None
    /\ state = "running"
    /\ calls = <<>>
    /\ last = NoCall
    /\ nEvents = 0
    /\ nOps = 0
    /\ modules = <<>>
    /\ osModules = {}
    /\ osMemory = <<>>
    /\ frames = <<>>

TblAdd(addr) ==
    /\ state = "running"
    /\ LET r == add_breakpoint(breakpoints, addr)
       IN  /\ breakpoints' = r.bps
           /\ last' = LastCall("add", addr, r.ret, breakpoints, None)
    /\ UNCHANGED <<threads, osAlive, osCtx, event, state, calls, nEvents, nOps>>
    /\ UNCHANGED <<modules, osModules, osMemory, frames>>

TblClear(id) ==
    /\ state = "running"
    /\ LET r == clear_breakpoint(breakpoints, id)
           \* the list() output before the add that this clear undoes, if the
           \* previous call was the add that returned this id
           undo == IF last.op = "add" /\ last.ret = Some(id)
                   THEN Some(list_breakpoints(last.pre)) ELSE None
       IN  /\ breakpoints' = r.bps
           /\ state' = IF r.panic THEN "panicked" ELSE state
           /\ last' = LastCall("clear", id, None, breakpoints, undo)
    /\ UNCHANGED <<threads, osAlive, osCtx, event, calls, nEvents, nOps>>
    /\ UNCHANGED <<modules, osModules, osMemory, frames>>

TblList ==
    /\ state = "running"
    /\ last' = LastCall("list", 0, list_breakpoints(breakpoints), breakpoints, None)
    /\ UNCHANGED <<breakpoints, threads, osAlive, osCtx, event, state, calls,
                   nEvents, nOps>>
    /\ UNCHANGED <<modules, osModules, osMemory, frames>>

TblWasHit(n) ==
    /\ state = "running"
    /\ LET ctx == [ZeroContext EXCEPT !.Dr6 = Dr6Inputs[n]]
       IN  last' = LastCall("was_hit", n, was_breakpoint_hit(breakpoints, ctx),
                            breakpoints, None)
    /\ UNCHANGED <<breakpoints, threads, osAlive, osCtx, event, state, calls,
                   nEvents, nOps>>
    /\ UNCHANGED <<modules, osModules, osMemory, frames>>

TableNext ==
    \/ \E addr \in Addrs : TblAdd(addr)
    \/ \E id \in 0 .. MaxClearId : TblClear(id)
    \/ TblList
    \/ \E n \in DOMAIN Dr6Inputs : TblWasHit(n)

SpecTable == TableInit /\ [][TableNext]_vars

---------------------------------------------------------------------------
(* Claims about the breakpoint table (checked under SpecTable). *)

LowBits(dr6) == dr6 \cap Slots

\* C3: was_hit returns slot-id i exactly when bit i is the lowest set bit
\* among bits 0..3 of DR6, and nothing when bits 0..3 are all zero, whatever
\* the higher bits of DR6 are.
C3_WasHitCanonical ==
    last.op = "was_hit" =>
        LET dr6 == Dr6Inputs[last.arg]
        IN  IF LowBits(dr6) = {}
            THEN last.ret = None
            ELSE last.ret = Some(Min(LowBits(dr6)))

Populated(bps) == { i \in Slots : bps[i] # None }

\* C4: add(addr) stores addr in the lowest-indexed empty slot and returns that
\* index; it returns nothing iff all 4 slots are populated, and then the
\* table is unchanged.
C4_AddLowestFree ==
    last.op = "add" =>
        /\ (last.ret = None) <=> (Populated(last.pre) = Slots)
        /\ last.ret = None => breakpoints = last.pre
        /\ last.ret # None =>
             LET id == Unwrap(last.ret)
             IN  /\ id = Min(Slots \ Populated(last.pre))
                 /\ breakpoints[id] # None
                 /\ Unwrap(breakpoints[id]).addr = last.arg

\* C4 witness: an add that lands in a hole below a populated slot, after
\* adds and a clear.
C4_Witness ==
    /\ last.op = "add"
    /\ last.ret = Some(1)
    /\ last.pre[0] # None
    /\ last.pre[2] # None
    /\ breakpoints[1] # None

\* C5: every populated slot i holds a breakpoint whose id is i, and a clear(j)
\* or an add landing in slot j leaves every other slot as it was.
C5_SlotIdIsIndex ==
    /\ \A i \in Slots :
          breakpoints[i] # None => Unwrap(breakpoints[i]).id = i
    /\ (last.op = "clear" /\ last.arg \in Slots) =>
          \A k \in Slots \ {last.arg} : breakpoints[k] = last.pre[k]
    /\ (last.op = "add" /\ last.ret # None) =>
          \A k \in Slots \ {Unwrap(last.ret)} : breakpoints[k] = last.pre[k]

\* C5 witness: a populated slot was cleared while a later slot is populated.
C5_Witness ==
    /\ last.op = "clear"
    /\ last.arg = 1
    /\ last.pre[1] # None
    /\ breakpoints[1] = None
    /\ breakpoints[2] # None
    /\ breakpoints[0] # None

ListedIds(list) == { list[k].id : k \in DOMAIN list }

\* C6: list() contains a breakpoint with slot-id i iff slot i is populated;
\* and add(addr) returning id followed by clear(id) gives back the list()
\* output from before the add.
C6_ListAndUndo ==
    /\ ListedIds(list_breakpoints(breakpoints)) = Populated(breakpoints)
    /\ last.op = "list" => ListedIds(last.ret) = Populated(breakpoints)
    /\ (last.op = "clear" /\ last.hist # None) =>
          list_breakpoints(breakpoints) = Unwrap(last.hist)

\* C6 witness: an add into a hole of a non-empty table was undone by clear.
C6_Witness ==
    /\ last.op = "clear"
    /\ last.hist # None
    /\ Len(Unwrap(last.hist)) = 2
    /\ breakpoints[0] = None
    /\ last.arg = 0

\* C37: clear_breakpoint(id) never aborts the debugger: for id in 0..3 it
\* empties slot id (nothing changes if the slot is empty), and for an id of
\* 4 or more it leaves the table as it is.
C37_ClearNeverAborts ==
    last.op = "clear" =>
        /\ state # "panicked"
        /\ breakpoints = IF last.arg \in Slots
                         THEN [last.pre EXCEPT ![last.arg] = None]
                         ELSE last.pre

---------------------------------------------------------------------------
(* apply_breakpoints driven through the public methods of                  *)
(* BreakpointManager over a Process whose threads were registered with     *)
(* add_thread.  The target's threads are stopped: nothing but the debugger *)
(* writes their contexts.                                                  *)

\* An address no breakpoint of the model uses: what a debug register holds
\* when something else wrote it before.
StaleAddr == MaxAddr + 1

\* The context of a thread the debugger has not written yet: nothing set but
\* the always-one EFLAGS bit 1 and IF (bit 9), ...
CleanContext == [ZeroContext EXCEPT !.EFlags = {1, 9}]
\* ... or debug registers in use: every enable bit and every RW/LEN field of
\* DR7 set, stale addresses, B0 pending in DR6, RF and TF set.
DirtyContext ==
    [Dr0 |-> StaleAddr, Dr1 |-> StaleAddr, Dr2 |-> StaleAddr, Dr3 |-> StaleAddr,
     Dr6 |-> {0},
     Dr7 |-> (0 .. 7) \cup {10} \cup (16 .. 31),
     EFlags |-> {1, 8, 9, 16}]
StartContexts == {CleanContext, DirtyContext}

\* Process::threads after add_thread(1), ..., add_thread(n)
ThreadList(n) == [i \in 1 .. n |-> i]
ListedThreads == { threads[k] : k \in DOMAIN threads }

ApplyInit ==
    /\ breakpoints = NewBreakpointManager
    /\ \E n \in 1 .. MaxThreads : threads = ThreadList(n)
    \* every thread exists, or one of them has exited
    /\ osAlive \in {ThreadIds} \cup { ThreadIds \ {t} : t \in ThreadIds }
    /\ osCtx \in [ThreadIds -> StartContexts]
    /\ event = None
    /\ state = "running"
    /\ calls = <<>>
    /\ last = LastCall("new", 0, None, <<>>, 0)
    /\ nEvents = 0
    /\ nOps = 0
    /\ modules = <<>>
    /\ osModules = {}
    /\ osMemory = <<>>
    /\ frames = <<>>

ApAdd(addr) ==
    /\ nOps < MaxOps
    /\ nOps' = nOps + 1
    /\ breakpoints' = add_breakpoint(breakpoints, addr).bps
    /\ last' = LastCall("add", addr, add_breakpoint(breakpoints, addr).ret, <<>>, 0)
    /\ UNCHANGED <<threads, osAlive, osCtx, event, state, calls, nEvents>>
    /\ UNCHANGED <<modules, osModules, osMemory, frames>>

ApClear(id) ==
    /\ nOps < MaxOps
    /\ nOps' = nOps + 1
    /\ breakpoints' = clear_breakpoint(breakpoints, id).bps
    /\ last' = LastCall("clear", id, None, <<>>, 0)
    /\ UNCHANGED <<threads, osAlive, osCtx, event, state, calls, nEvents>>
    /\ UNCHANGED <<modules, osModules, osMemory, frames>>

ApApply(resume_thread_id) ==
    /\ nOps < MaxOps
    /\ nOps' = nOps + 1
    /\ LET r == apply_breakpoints(breakpoints, threads, resume_thread_id,
                                  osAlive, osCtx)
           \* how many times in a row this same apply has now succeeded
           n == IF last.op = "apply" /\ last.arg = resume_thread_id
                   /\ last.ret # None
                THEN last.hist + 1 ELSE 1
       IN  /\ osCtx' = r.ctxs
           /\ calls' = r.calls
           /\ last' = LastCall("apply", resume_thread_id,
                               IF r.ok THEN Some("ok") ELSE None, osCtx,
                               IF r.ok THEN n ELSE 0)
    /\ UNCHANGED <<breakpoints, threads, osAlive, event, state, nEvents>>
    /\ UNCHANGED <<modules, osModules, osMemory, frames>>

ApplyNext ==
    \/ \E addr \in SomeAddrs : ApAdd(addr)
    \/ \E id \in Slots : ApClear(id)
    \/ \E t \in ThreadIds : ApApply(t)

SpecApply == ApplyInit /\ [][ApplyNext]_vars

---------------------------------------------------------------------------
(* Claims about apply_breakpoints (checked under SpecApply). *)

ApplySucceeded == last.op = "apply" /\ last.ret # None

\* The RW/LEN field of slot i in DR7: bits 16+4i .. 19+4i.
RwLenField(i) == (16 + 4 * i) .. (19 + 4 * i)

\* C7: after apply succeeds, for every thread of the process and every slot
\* i: DR7 bit 2i is set iff slot i is populated, and if it is populated DRi
\* holds the slot's address and the RW/LEN field of slot i in DR7 is 0000.
C7_ApplyProjectsTable ==
    ApplySucceeded =>
        \A th \in ListedThreads : \A i \in Slots :
            /\ (2 * i \in osCtx[th].Dr7) <=> (breakpoints[i] # None)
            /\ breakpoints[i] # None =>
                 /\ GetDr(osCtx[th], i) = Unwrap(breakpoints[i]).addr
                 /\ osCtx[th].Dr7 \cap RwLenField(i) = {}

\* C7 witness: apply succeeded on two threads, one of which had every DR7 bit
\* set, with slot 0 empty again and slot 1 populated.
C7_Witness ==
    /\ ApplySucceeded
    /\ Len(threads) = 2
    /\ \E th \in ListedThreads : last.pre[th] = DirtyContext
    /\ breakpoints[0] = None
    /\ breakpoints[1] # None

\* C8: apply(process, t) sets RFLAGS bit 16 in the context of the thread
\* whose id is t and leaves RFLAGS of every other thread as fetched.
C8_ResumeFlagOnlyOnResumedThread ==
    ApplySucceeded =>
        \A th \in ListedThreads :
            IF th = last.arg
            THEN /\ ResumeFlagBit \in osCtx[th].EFlags
                 /\ osCtx[th].EFlags = last.pre[th].EFlags \cup {ResumeFlagBit}
            ELSE osCtx[th].EFlags = last.pre[th].EFlags

\* C8 witness: apply succeeded on two threads; the resumed one had RF clear
\* and has it set now, the other one had RF clear.
C8_Witness ==
    /\ ApplySucceeded
    /\ Len(threads) = 2
    /\ last.arg \in ListedThreads
    /\ ResumeFlagBit \notin last.pre[last.arg].EFlags
    /\ \E th \in ListedThreads \ {last.arg} :
          ResumeFlagBit \notin last.pre[th].EFlags

\* C9: with the table, the thread list and the resume thread id unchanged, a
\* second (or any further) apply leaves every thread's context as the first
\* apply left it.
C9_ApplyIdempotent ==
    (ApplySucceeded /\ last.hist >= 2) => osCtx = last.pre

\* C9 witness: the same apply ran twice in a row over a populated slot and a
\* thread whose DR7 bits were all set before the first apply.
C9_Witness ==
    /\ ApplySucceeded
    /\ last.hist >= 2
    /\ \E i \in Slots : breakpoints[i] # None
    /\ \E th \in ListedThreads : osCtx[th].Dr7 \cap (16 .. 31) # {}
    /\ last.arg \in ListedThreads

\* C36: apply_breakpoints changes nothing of a thread's context but DRi of
\* a populated slot i, DR7 bit 2i of every slot, the RW/LEN field of a
\* populated slot and RFLAGS bit 16 of the resumed thread: DR6, DRi and the
\* RW/LEN field of an empty slot, the global-enable bits 2i+1 and the rest
\* of DR7, and the rest of RFLAGS are written back as fetched.
C36_ApplyWritesNothingElse ==
    last.op = "apply" =>
        \A th \in DOMAIN osCtx :
            LET now == osCtx[th]
                was == last.pre[th]
                written == (0 .. 7) \cup (16 .. 31)
            IN  /\ now.Dr6 = was.Dr6
                /\ \A i \in Slots :
                      /\ breakpoints[i] = None =>
                            /\ GetDr(now, i) = GetDr(was, i)
                            /\ now.Dr7 \cap RwLenField(i) = was.Dr7 \cap RwLenField(i)
                      /\ (2 * i + 1 \in now.Dr7) <=> (2 * i + 1 \in was.Dr7)
                /\ now.Dr7 \ written = was.Dr7 \ written
                /\ now.EFlags \ {ResumeFlagBit} = was.EFlags \ {ResumeFlagBit}
                /\ th # last.arg => now.EFlags = was.EFlags

\* C36 witness: apply succeeded with an empty and a populated slot on a
\* thread that had stale debug registers, DR6 and every DR7 bit set, and
\* changed that thread's context.
C36_Witness ==
    /\ ApplySucceeded
    /\ \E i \in Slots : breakpoints[i] = None
    /\ \E i \in Slots : breakpoints[i] # None
    /\ \E th \in ListedThreads :
          /\ last.pre[th] = DirtyContext
          /\ osCtx[th] # last.pre[th]
          /\ osCtx[th].Dr6 # {}

---------------------------------------------------------------------------
(* The debug events the platform delivers and the typed events pull_event  *)
(* makes of them.                                                          *)

\* impl TryFrom<NTSTATUS> for ExceptionCode: the codes the model delivers.
\* Any code outside the table of 20 is Err(code); DBG_CONTROL_C is one.
ExceptionCode_try_from(value) ==
    CASE value = "EXCEPTION_ACCESS_VIOLATION" -> Some("AccessViolation")
      [] value = "EXCEPTION_BREAKPOINT" -> Some("Breakpoint")
      [] value = "EXCEPTION_SINGLE_STEP" -> Some("SingleStep")
      [] OTHER -> None

\* The trap flag, RFLAGS bit 8: TRAP_FLAG = 1 << 8.
TrapFlagBit == 8

\* DEBUG_EVENT: the event code, the thread it is reported for and, for an
\* exception, the record.  after_step is what the platform knows and the
\* debugger does not: the exception is the single step that the trap flag,
\* set in the thread when it was last continued, asked for.
RawEvent(code, tid, exception_code, first_chance, after_step) ==
    [dwDebugEventCode |-> code, dwThreadId |-> tid,
     ExceptionCode |-> exception_code, dwFirstChance |-> first_chance,
     after_step |-> after_step]

PlainEventCodes ==
    { "EXIT_PROCESS_DEBUG_EVENT", "EXIT_THREAD_DEBUG_EVENT",
      "LOAD_DLL_DEBUG_EVENT", "UNLOAD_DLL_DEBUG_EVENT",
      "OUTPUT_DEBUG_STRING_EVENT", "RIP_EVENT", "UNKNOWN_DEBUG_EVENT" }

\* ExceptionEventKind
ExceptionEventKind(expect_step_exception, is_first_chance, code, breakpoint) ==
    [expect_step_exception |-> expect_step_exception,
     is_first_chance |-> is_first_chance, code |-> code,
     breakpoint |-> breakpoint]

\* DebugEventKind: the variant and, for Exception, its fields.
DebugEventKind(tag, exception) == [tag |-> tag, exception |-> exception]

\* DebugEventKind::should_continue
should_continue(kind) == kind.tag # "ExitProcess"

\* DebugEventKind::exception; None when ExceptionCode::try_from(..).unwrap()
\* panics.
exception(exception_code, first_chance, bps, ctx) ==
    LET code == ExceptionCode_try_from(exception_code)
    IN  IF code = None THEN None
        ELSE Some(DebugEventKind("Exception",
                 Some(ExceptionEventKind(FALSE, first_chance, Unwrap(code),
                                         was_breakpoint_hit(bps, ctx)))))

\* DebugEventKind::continue_status
continue_status(kind) ==
    IF kind.tag = "Exception"
    THEN LET e == Unwrap(kind.exception)
         IN  IF (e.expect_step_exception /\ e.code = "SingleStep")
                \/ e.breakpoint # None
             THEN "DBG_CONTINUE"
             ELSE "DBG_EXCEPTION_NOT_HANDLED"
    ELSE "DBG_CONTINUE"

\* DebugEvent::new: the fields of DebugEvent the model keeps.
DebugEvent(kind, raw, ctx) ==
    [kind |-> kind, raw |-> raw, ctx |-> ctx,
     continue_status |-> continue_status(kind)]

\* DebugEvent::thread_id
thread_id(ev) == ev.raw.dwThreadId

\* pull_event after the wait, the open and the get-context succeeded: the
\* match on dwDebugEventCode.  sub is how the handler's work on the target
\* ended: add_module of create_process and load_dll ("ok", "err" with `?`,
\* or "panic"), read_memory_string of output_debug_string ("ok", or "panic"
\* of from_utf8(..).unwrap()).  The result is Ok(kind), Err or a panic, with
\* the thread list.
dispatch(raw, ctx, bps, thread_list, sub) ==
    LET code == raw.dwDebugEventCode
        Ok(kind, thr) == [res |-> "ok", kind |-> Some(kind), threads |-> thr]
        Err(thr) == [res |-> "err", kind |-> None, threads |-> thr]
        Panic == [res |-> "panic", kind |-> None, threads |-> thread_list]
        Sub(tag, thr) == CASE sub = "ok" -> Ok(DebugEventKind(tag, None), thr)
                           [] sub = "err" -> Err(thr)
                           [] OTHER -> [Panic EXCEPT !.threads = thr]
    IN  CASE code = "CREATE_PROCESS_DEBUG_EVENT" ->
               \* add_thread, then add_module(..)?
               Sub("CreateProcess", Append(thread_list, raw.dwThreadId))
          [] code = "CREATE_THREAD_DEBUG_EVENT" ->
               Ok(DebugEventKind("CreateThread", None),
                  Append(thread_list, raw.dwThreadId))
          [] code = "EXCEPTION_DEBUG_EVENT" ->
               LET k == exception(raw.ExceptionCode, raw.dwFirstChance, bps, ctx)
               IN  IF k = None THEN Panic ELSE Ok(Unwrap(k), thread_list)
          [] code = "EXIT_PROCESS_DEBUG_EVENT" ->
               Ok(DebugEventKind("ExitProcess", None), thread_list)
          [] code = "EXIT_THREAD_DEBUG_EVENT" ->
               Ok(DebugEventKind("ExitThread", None), thread_list)
          [] code = "LOAD_DLL_DEBUG_EVENT" ->
               Sub("LoadDll", thread_list)
          [] code = "OUTPUT_DEBUG_STRING_EVENT" ->
               Sub("OutputDebugString", thread_list)
          [] code = "RIP_EVENT" -> Ok(DebugEventKind("RipEvent", None), thread_list)
          [] code = "UNLOAD_DLL_DEBUG_EVENT" ->
               Ok(DebugEventKind("UnloadDll", None), thread_list)
          [] OTHER -> Panic

---------------------------------------------------------------------------
(* The platform side of a debug event. *)

\* What the target looks like when the wait returns raw: a created thread
\* exists with a context of its own; the thread of an exception has DR6 as
\* the platform reports it, and the trap flag is consumed by the single step
\* it asked for.
os_deliver(raw, dr6, start_ctx, alive, ctxs) ==
    LET tid == raw.dwThreadId
    IN  CASE raw.dwDebugEventCode = "CREATE_THREAD_DEBUG_EVENT" ->
               [alive |-> alive \cup {tid}, ctxs |-> Append(ctxs, start_ctx)]
          [] raw.dwDebugEventCode = "EXCEPTION_DEBUG_EVENT" ->
               [alive |-> alive,
                ctxs |-> [ctxs EXCEPT ![tid] =
                            [@ EXCEPT !.Dr6 = dr6,
                                      !.EFlags = IF raw.after_step
                                                 THEN @ \ {TrapFlagBit} ELSE @]]]
          [] OTHER -> [alive |-> alive, ctxs |-> ctxs]

\* What continuing the event does to the target: the thread of an
\* exit-thread event is gone once the event is continued.
os_continue(raw, alive) ==
    IF raw.dwDebugEventCode = "EXIT_THREAD_DEBUG_EVENT"
    THEN alive \ {raw.dwThreadId}
    ELSE alive

\* The exceptions the platform reports: the code, whether it is the first
\* chance, and DR6 of the thread.  A single step is reported with BS (bit 14)
\* in DR6, or with DR6 read as zero when the thread's debug registers are
\* not in use.
ExceptionInputs ==
    { <<"EXCEPTION_ACCESS_VIOLATION", TRUE, {}>>,
      <<"EXCEPTION_ACCESS_VIOLATION", FALSE, {}>>,
      <<"EXCEPTION_SINGLE_STEP", TRUE, {}>>,
      <<"EXCEPTION_SINGLE_STEP", TRUE, {14}>>,
      <<"DBG_CONTROL_C", TRUE, {}>> }

\* The context a thread created while the debugger is attached starts with.
NewThreadContexts == { CleanContext }

\* What the platform hands to one pull_event: the event, DR6 of its thread
\* (for an exception), the context a created thread starts with, and how
\* the handler's work on the target ends ("ok", "err", "panic").
Delivery(raw, dr6, start_ctx, sub) ==
    [raw |-> raw, dr6 |-> dr6, start_ctx |-> start_ctx, sub |-> sub]

\* The deliveries the platform may make next: create-process first, for the
\* main thread; afterwards a new thread with the next id, or any other event
\* for a thread that exists.
Deliveries ==
    IF nEvents = 0
    THEN { Delivery(RawEvent("CREATE_PROCESS_DEBUG_EVENT", 1, "", FALSE, FALSE),
                    {}, ZeroContext, sub) : sub \in {"ok", "err", "panic"} }
    ELSE { Delivery(RawEvent("CREATE_THREAD_DEBUG_EVENT", t, "", FALSE, FALSE),
                    {}, c, "ok") :
             t \in { Len(osCtx) + 1 } \cap ThreadIds, c \in NewThreadContexts }
         \cup { Delivery(RawEvent("EXCEPTION_DEBUG_EVENT", t, e[1], e[2],
                                  e[1] = "EXCEPTION_SINGLE_STEP"
                                     /\ TrapFlagBit \in osCtx[t].EFlags),
                         e[3], ZeroContext, "ok") :
                  t \in osAlive, e \in ExceptionInputs }
         \cup { Delivery(RawEvent(p[1], p[2], "", FALSE, FALSE), {}, ZeroContext,
                         "ok") :
                  p \in { q \in PlainEventCodes \X osAlive :
                            q[1] = "EXIT_THREAD_DEBUG_EVENT" => osAlive # {q[2]} } }
         \cup { Delivery(RawEvent(p[1], t, "", FALSE, FALSE), {}, ZeroContext,
                         p[2]) :
                  p \in { << "LOAD_DLL_DEBUG_EVENT", "err" >>,
                          << "OUTPUT_DEBUG_STRING_EVENT", "panic" >> },
                  t \in osAlive }

PlatformFailures ==
    { "none", "WaitForDebugEventEx", "OpenThread", "GetThreadContext" }

\* The wait, the open and the get-context fail before the event is looked
\* at: one event per thread stands for all that a failing pull may be given.
FailingDeliveries ==
    { d \in Deliveries :
        /\ d.sub = "ok"
        /\ d.raw.dwDebugEventCode \in
              { "CREATE_PROCESS_DEBUG_EVENT", "RIP_EVENT" } }

---------------------------------------------------------------------------
(* The event loop: Debugger::pull_event, the front-end's commands on the   *)
(* event in flight, and the release (Drop) of the event.                   *)

\* Debugger::run: an empty Process, an empty BreakpointManager; the target
\* exists with its main thread.
Init ==
    /\ breakpoints = NewBreakpointManager
    /\ threads = <<>>
    /\ osAlive = {1}
    /\ osCtx = << CleanContext >>
    /\ event = None
    /\ state = "idle"
    /\ calls = <<>>
    /\ last = LastCall("run", 0, None, <<>>, 0)
    /\ nEvents = 0
    /\ nOps = 0
    /\ modules = <<>>
    /\ osModules = {}
    /\ osMemory = <<>>
    /\ frames = <<>>

\* A WindowsError that names the call that started the target, whatever call
\* failed.
WindowsError_of_launch(function) == "WindowsError { source: CreateProcessW }"

\* WindowsError::new(function, source) as it is displayed: the error names
\* the platform call that failed.
WindowsError(function) == "WindowsError { source: " \o function \o " }"

\* What a pull_event started from: the event the platform has for it, the
\* address the image of a module event is mapped at, and the registries of
\* the debugger as they were.
PullPre(raw, base) ==
    [raw |-> raw, base |-> base, threads |-> threads, modules |-> modules,
     breakpoints |-> breakpoints]

\* Debugger::pull_event.  reg is what add_module makes of the image of a
\* create-process or load-dll event: how it ended and the module list it
\* leaves; base is where that image is mapped.
PullEventOn(delivery, fail, base, reg) ==
    /\ state = "idle"
    /\ nEvents < MaxEvents
    /\ nEvents' = nEvents + 1
    /\ IF fail = "WaitForDebugEventEx"
       THEN /\ state' = "error"
            /\ event' = None
            /\ calls' = << Call(fail, 0, "failed") >>
            /\ last' = LastCall("pull_event", 0, Some(WindowsError(fail)),
                                PullPre(delivery.raw, base), 0)
            /\ UNCHANGED <<breakpoints, threads, modules, osAlive, osCtx>>
       ELSE LET raw == delivery.raw
                os == os_deliver(raw, delivery.dr6, delivery.start_ctx,
                                 osAlive, osCtx)
                tid == raw.dwThreadId
            IN  /\ osAlive' = os.alive
                /\ osCtx' = os.ctxs
                /\ UNCHANGED breakpoints
                /\ IF fail # "none"
                   THEN /\ state' = "error"
                        /\ event' = None
                        /\ calls' = << Call(fail, tid, "failed") >>
                        /\ last' = LastCall("pull_event", tid,
                                            Some(WindowsError(fail)),
                                            PullPre(raw, base), 0)
                        /\ UNCHANGED <<threads, modules>>
                   ELSE LET ctx == os.ctxs[tid]
                            d == dispatch(raw, ctx, breakpoints, threads,
                                          reg.res)
                        IN  /\ threads' = d.threads
                            /\ modules' = reg.modules
                            /\ calls' = <<>>
                            /\ last' = LastCall("pull_event", tid, None,
                                                PullPre(raw, base), 0)
                            /\ event' = IF d.res = "ok"
                                        THEN Some(DebugEvent(Unwrap(d.kind), raw, ctx))
                                        ELSE None
                            /\ state' = CASE d.res = "ok" -> "event"
                                          [] d.res = "err" -> "error"
                                          [] OTHER -> "panicked"
    /\ UNCHANGED nOps

\* pull_event where the module list is not followed: the delivery says how
\* the handler's work on the target ends.
PullEvent(delivery, fail) ==
    /\ PullEventOn(delivery, fail, 0, [res |-> delivery.sub, modules |-> modules])
    /\ UNCHANGED <<osModules, osMemory, frames>>

\* impl Drop for DebugEvent: nothing for ExitProcess; otherwise
\* apply_breakpoints(thread_id).unwrap(), then ContinueDebugEvent with the
\* status computed when the event was made.
drop_event(ev, bps, thread_list, alive, ctxs) ==
    IF ~should_continue(ev.kind)
    THEN [continued |-> FALSE, panic |-> FALSE, ctxs |-> ctxs, calls |-> <<>>,
          alive |-> alive]
    ELSE LET r == apply_breakpoints(bps, thread_list, thread_id(ev), alive, ctxs)
         IN  IF ~r.ok
             THEN [continued |-> FALSE, panic |-> TRUE, ctxs |-> r.ctxs,
                   calls |-> r.calls, alive |-> alive]
             ELSE [continued |-> TRUE, panic |-> FALSE, ctxs |-> r.ctxs,
                   calls |-> Append(r.calls,
                               Call("ContinueDebugEvent", thread_id(ev),
                                    ev.continue_status)),
                   alive |-> os_continue(ev.raw, alive)]

\* The event goes out of scope at the end of the front-end's loop body.
Release ==
    /\ state = "event"
    /\ LET ev == Unwrap(event)
           d == drop_event(ev, breakpoints, threads, osAlive, osCtx)
       IN  /\ osCtx' = d.ctxs
           /\ osAlive' = d.alive
           /\ calls' = d.calls
           /\ state' = IF d.panic THEN "panicked"
                       ELSE IF should_continue(ev.kind) THEN "idle" ELSE "exited"
           /\ last' = LastCall("release", thread_id(ev),
                               IF d.continued THEN Some(ev.continue_status)
                               ELSE None,
                               ev, IF last.op = "step_into" THEN 1 ELSE 0)
    /\ event' = None
    /\ UNCHANGED <<breakpoints, threads, nEvents, nOps>>
    /\ UNCHANGED <<modules, osModules, osMemory, frames>>

\* step_into that sets the trap flag in the event's context and leaves the
\* write to the release of the event.
StepIntoEventOnly ==
    /\ state = "event"
    /\ TrapFlagBit \notin Unwrap(event).ctx.EFlags
    /\ LET ev == Unwrap(event)
           ctx == [ev.ctx EXCEPT !.EFlags = @ \cup {TrapFlagBit}]
       IN  /\ event' = Some([ev EXCEPT !.ctx = ctx])
           /\ last' = LastCall("step_into", thread_id(ev), None, <<>>, 0)
    /\ UNCHANGED <<breakpoints, threads, osAlive, osCtx, state, calls, nEvents, nOps>>
    /\ UNCHANGED <<modules, osModules, osMemory, frames>>

\* DebugEvent::step_into: the trap flag is set in the event's context, and
\* the context is written to the thread.
StepInto ==
    /\ state = "event"
    /\ TrapFlagBit \notin Unwrap(event).ctx.EFlags
    /\ LET ev == Unwrap(event)
           ctx == [ev.ctx EXCEPT !.EFlags = @ \cup {TrapFlagBit}]
       IN  /\ event' = Some([ev EXCEPT !.ctx = ctx])
           /\ osCtx' = [osCtx EXCEPT ![thread_id(ev)] = ctx]
           /\ last' = LastCall("step_into", thread_id(ev), None, <<>>, 0)
    /\ UNCHANGED <<breakpoints, threads, osAlive, state, calls, nEvents, nOps>>
    /\ UNCHANGED <<modules, osModules, osMemory, frames>>

\* DebugEvent::add_breakpoint
AddBreakpoint(addr) ==
    /\ state = "event"
    /\ nOps < MaxCmds
    /\ nOps' = nOps + 1
    /\ LET r == add_breakpoint(breakpoints, addr)
       IN  /\ breakpoints' = r.bps
           /\ last' = LastCall("add", addr, r.ret, <<>>, 0)
    /\ UNCHANGED <<threads, osAlive, osCtx, event, state, calls, nEvents>>
    /\ UNCHANGED <<modules, osModules, osMemory, frames>>

\* DebugEvent::clear_breakpoint.  An id outside the table panics; the build
\* decides whether the panic unwinds, which drops the event in flight, or
\* aborts.
ClearBreakpoint(id, unwinds) ==
    /\ state = "event"
    /\ nOps < MaxCmds
    /\ nOps' = nOps + 1
    /\ LET r == clear_breakpoint(breakpoints, id)
           ev == Unwrap(event)
           d == drop_event(ev, breakpoints, threads, osAlive, osCtx)
       IN  /\ breakpoints' = r.bps
           /\ last' = LastCall("clear", id, None, <<>>, 0)
           /\ IF ~r.panic
              THEN UNCHANGED <<osAlive, osCtx, event, state, calls>>
              ELSE /\ state' = "panicked"
                   /\ event' = None
                   /\ IF unwinds
                      THEN /\ osCtx' = d.ctxs
                           /\ osAlive' = d.alive
                           /\ calls' = d.calls
                      ELSE UNCHANGED <<osAlive, osCtx, calls>>
    /\ UNCHANGED <<threads, nEvents>>
    /\ UNCHANGED <<modules, osModules, osMemory, frames>>

Next ==
    \/ \E delivery \in Deliveries : PullEvent(delivery, "none")
    \/ \E delivery \in FailingDeliveries, fail \in PlatformFailures \ {"none"} :
          PullEvent(delivery, fail)
    \/ Release
    \/ StepInto
    \/ \E addr \in SomeAddrs : AddBreakpoint(addr)
    \/ \E id \in 0 .. MaxClearId, unwinds \in BOOLEAN :
          /\ IF id \in Slots THEN unwinds /\ breakpoints[id] # None ELSE TRUE
          /\ ClearBreakpoint(id, unwinds)

Spec == Init /\ [][Next]_vars

---------------------------------------------------------------------------
(* Claims about the event loop (checked under Spec). *)

Released == last.op = "release"
ReleasedEvent == last.pre
LastOf(seq) == seq[Len(seq)]

\* C1: releasing an event whose kind is not ExitProcess first re-applies the
\* breakpoint table to every thread of the live set, with the resume thread
\* id equal to the event's thread id, and only after all of those context
\* writes issues exactly one continue-debug-event for the event; releasing an
\* ExitProcess event applies nothing and issues no continue.
C1_ReleaseAppliesThenContinues ==
    Released =>
        IF ReleasedEvent.kind.tag = "ExitProcess"
        THEN calls = <<>>
        ELSE /\ Len(calls) = Len(threads) + 1
             /\ \A k \in 1 .. Len(threads) :
                   calls[k] = Call("SetThreadContext", threads[k], "ok")
             /\ LastOf(calls).fn = "ContinueDebugEvent"
             /\ LastOf(calls).tid = thread_id(ReleasedEvent)
             /\ ResumeFlagBit \in osCtx[thread_id(ReleasedEvent)].EFlags

\* The status the claim asks for: the platform's knowledge that the exception
\* is the single step that was requested stands for "expected single-step".
ClaimedStatus(ev) ==
    IF ev.kind.tag = "Exception"
    THEN LET e == Unwrap(ev.kind.exception)
         IN  IF (ev.raw.after_step /\ e.code = "SingleStep") \/ e.breakpoint # None
             THEN "DBG_CONTINUE"
             ELSE "DBG_EXCEPTION_NOT_HANDLED"
    ELSE "DBG_CONTINUE"

\* C2: the status passed to continue-debug-event on release is handled for an
\* exception that is an expected single-step (code SingleStep while a step
\* was requested) or has a reported breakpoint hit, not-handled for every
\* other exception, and handled for every event that is no exception.
C2_ContinueStatus ==
    (Released /\ calls # <<>> /\ LastOf(calls).fn = "ContinueDebugEvent") =>
        LastOf(calls).arg = ClaimedStatus(ReleasedEvent)

\* C10: the live-thread set holds exactly the threads announced by
\* create-process and create-thread events that have not had an exit-thread
\* event pulled and released since; no later apply touches an exited thread.
C10_LiveSetIsAliveThreads ==
    /\ (nEvents > 0 /\ state \in {"idle", "event"}) => ListedThreads = osAlive
    /\ Released =>
          \A k \in DOMAIN calls :
              ~(calls[k].fn = "OpenThread" /\ calls[k].arg = "failed")

\* C11: when open-thread (or get/set-thread-context) fails for a listed
\* thread during apply_breakpoints, that thread is skipped: every listed
\* thread that is alive still gets the table written, and the release still
\* issues continue.
C11_FailedThreadIsSkipped ==
    (Released /\ should_continue(ReleasedEvent.kind)) =>
        /\ \A t \in ListedThreads \cap osAlive :
              \E k \in DOMAIN calls : calls[k] = Call("SetThreadContext", t, "ok")
        /\ \E k \in DOMAIN calls : calls[k].fn = "ContinueDebugEvent"

\* The release directly follows step_into() on the same event, and continue
\* was issued.
SteppedAndContinued == Released /\ last.hist = 1 /\ last.ret # None

\* C12: after step_into() on an event followed by its release, the event
\* thread's context at the moment of continue has the trap flag (bit 8) set,
\* together with the resume flag and the debug registers of the table.
C12_StepFlagInEffectAtContinue ==
    SteppedAndContinued =>
        LET ctx == osCtx[last.arg]
        IN  /\ TrapFlagBit \in ctx.EFlags
            /\ ResumeFlagBit \in ctx.EFlags
            /\ \A i \in Slots :
                  /\ (2 * i \in ctx.Dr7) <=> (breakpoints[i] # None)
                  /\ breakpoints[i] # None =>
                        GetDr(ctx, i) = Unwrap(breakpoints[i]).addr

\* C12 witness: a step was requested on an event while a breakpoint was set,
\* and the event was continued.
C12_Witness ==
    /\ SteppedAndContinued
    /\ \E i \in Slots : breakpoints[i] # None
    /\ TrapFlagBit \in osCtx[last.arg].EFlags

\* C13: after step_into() and the release of the event, the next Exception
\* event with code SingleStep is recognised as the expected single step and
\* continued with status handled, even when was_hit reports no breakpoint.
C13_ExpectedStepIsHandled ==
    (/\ Released
     /\ last.ret # None
     /\ ReleasedEvent.kind.tag = "Exception"
     /\ ReleasedEvent.raw.after_step) =>
        /\ Unwrap(ReleasedEvent.kind.exception).expect_step_exception
        /\ Unwrap(last.ret) = "DBG_CONTINUE"

\* The last call was a pull_event in which a platform call failed.
PlatformCallFailed ==
    /\ last.op = "pull_event"
    /\ calls # <<>>
    /\ calls[1].arg = "failed"

\* C26: when WaitForDebugEventEx, OpenThread or GetThreadContext fails
\* inside pull_event, pull_event returns an error that names the call that
\* failed, and the thread list, the module list and the breakpoint table
\* are as they were.
C26_PlatformFailureIsReturned ==
    PlatformCallFailed =>
        /\ state = "error"
        /\ event = None
        /\ \E f \in { "WaitForDebugEventEx", "OpenThread", "GetThreadContext" } :
              /\ calls[1].fn = f
              /\ last.ret = Some("WindowsError { source: " \o f \o " }")
        /\ threads = last.pre.threads
        /\ modules = last.pre.modules
        /\ breakpoints = last.pre.breakpoints

\* C26 witness: GetThreadContext failed for an event of a running target
\* whose debugger has a thread listed and a breakpoint set.
C26_Witness ==
    /\ PlatformCallFailed
    /\ calls[1].fn = "GetThreadContext"
    /\ threads # <<>>
    /\ \E i \in Slots : breakpoints[i] # None

\* The last call was a pull_event whose platform calls succeeded.
Dispatched == last.op = "pull_event" /\ ~PlatformCallFailed

\* C27: pull_event yields an Exception event, with the first-chance flag
\* of the notification, for every exception the platform reports, whatever
\* its code, and an event for every kind of debug event; a code or a kind
\* it does not know does not abort the debugger.
C27_EveryNotificationIsAnEvent ==
    /\ (Dispatched /\ last.pre.raw.dwDebugEventCode = "EXCEPTION_DEBUG_EVENT") =>
          /\ state = "event"
          /\ Unwrap(event).kind.tag = "Exception"
          /\ Unwrap(Unwrap(event).kind.exception).is_first_chance
                = last.pre.raw.dwFirstChance
    /\ (Dispatched /\ last.pre.raw.dwDebugEventCode
                         \notin { "CREATE_PROCESS_DEBUG_EVENT",
                                  "LOAD_DLL_DEBUG_EVENT",
                                  "OUTPUT_DEBUG_STRING_EVENT" }) =>
          state = "event"

\* The last call was a pull_event whose WaitForDebugEventEx returned an
\* event: the target is stopped until the event is continued.
EventObtained ==
    /\ last.op = "pull_event"
    /\ ~(PlatformCallFailed /\ calls[1].fn = "WaitForDebugEventEx")

\* The ContinueDebugEvent calls that the last call made.
Continues == { k \in DOMAIN calls : calls[k].fn = "ContinueDebugEvent" }

\* C34: every debug event that a wait returned is answered by exactly one
\* ContinueDebugEvent before the next wait, unless it is ExitProcess, also
\* when pull_event fails after the wait (OpenThread, GetThreadContext or
\* the introspection of a module failing): the debugger does not stop or
\* wait again with the event unanswered.  As a safety property: an event
\* that was obtained is held by the caller, and the release of an event
\* that is held continues it once.
C34_EveryEventIsAnsweredOnce ==
    /\ EventObtained => state = "event"
    /\ last.op = "release" =>
          IF should_continue(ReleasedEvent.kind)
          THEN Cardinality(Continues) = 1 /\ state = "idle"
          ELSE Continues = {}

\* C35: the breakpoint id of an Exception event names a populated slot:
\* was_breakpoint_hit gives no slot that is empty, nothing for an empty
\* table, so that no exception is continued as handled for a breakpoint
\* that does not exist.
C35_ReportedBreakpointExists ==
    /\ (state = "event" /\ Unwrap(event).kind.tag = "Exception") =>
          LET hit == Unwrap(Unwrap(event).kind.exception).breakpoint
          IN  hit # None => breakpoints[Unwrap(hit)] # None
    /\ (last.op = "release" /\ ReleasedEvent.kind.tag = "Exception"
           /\ last.ret = Some("DBG_CONTINUE")) =>
          LET e == Unwrap(ReleasedEvent.kind.exception)
          IN  \/ e.expect_step_exception /\ e.code = "SingleStep"
              \/ e.breakpoint # None /\ breakpoints[Unwrap(e.breakpoint)] # None

---------------------------------------------------------------------------
(* The module registry (kafer-core/src/processes.rs).  A module or needle  *)
(* name is the sequence of the pieces that split('\\') gives; a symbol     *)
(* name is a string.                                                       *)

\* str::to_lowercase on the pieces the model uses.
to_lowercase(piece) ==
    CASE piece = "C:" -> "c:"
      [] piece = "Lib.dll" -> "lib.dll"
      [] piece = "LIB.DLL" -> "lib.dll"
      [] piece = "App.exe" -> "app.exe"
      [] piece = "OTHER.DLL" -> "other.dll"
      [] piece = "MODULE_20" -> "module_20"
      [] piece = "Foo" -> "foo"
      [] OTHER -> piece

LowerName(name) == [i \in DOMAIN name |-> to_lowercase(name[i])]

\* fn name_equals(module_name, needle_name)
name_equals(module_name, needle_name) ==
    LET m == LowerName(module_name)
        n == LowerName(needle_name)
    IN  \/ m = n
        \/ << m[Len(m)] >> = n

\* The name as one string again, for format!.
RECURSIVE JoinPath(_)
JoinPath(name) ==
    IF Len(name) = 1 THEN name[1]
    ELSE name[1] \o "\\" \o JoinPath(Tail(name))

\* format!("{:X}", n)
HexDigit(d) ==
    << "0", "1", "2", "3", "4", "5", "6", "7",
       "8", "9", "A", "B", "C", "D", "E", "F" >>[d + 1]

RECURSIVE UpperHex(_)
UpperHex(n) ==
    IF n < 16 THEN HexDigit(n)
    ELSE UpperHex(n \div 16) \o HexDigit(n % 16)

\* enum ExportTarget and ExportTarget::as_rva
Rva(addr) == [kind |-> "Rva", value |-> addr]
Forwarder(name) == [kind |-> "Forwarder", value |-> name]
as_rva(target) == IF target.kind = "Rva" THEN Some(target.value) ELSE None

\* struct Export
Export(name, ordinal, target) ==
    [name |-> name, ordinal |-> ordinal, target |-> target]

\* What the MemorySource shows of an image mapped at some base, and what
\* the PDB file named by its CodeView entry holds:
\*   readable    the DOS header and the PE header can be read
\*   Machine     FileHeader.Machine
\*   SizeOfImage OptionalHeader.SizeOfImage
\*   debug       the debug data directory: "none" (VirtualAddress = 0),
\*               "unreadable", "other" (no CodeView entry) or "codeview"
\*   pdb_file    "missing" (File::open fails), "invalid" (PDB::open fails),
\*               "corrupt" (debug_information() fails) or "ok"
\*   publics     the PDB's public symbols: name, rva, function flag
\*   procedures  the Procedure records of the PDB's module streams
\*   exports     the export data directory, None when VirtualAddress = 0
Image(readable, machine, size, debug, pdb_file, publics, procedures, exports) ==
    [readable |-> readable, Machine |-> machine, SizeOfImage |-> size,
     debug |-> debug, pdb_file |-> pdb_file, publics |-> publics,
     procedures |-> procedures, exports |-> exports]

\* IMAGE_EXPORT_DIRECTORY at VirtualAddress, Size bytes long, with its three
\* tables: functions[i] is the rva of unbiased ordinal i - 1, and the name
\* names[k] belongs to unbiased ordinal ordinals[k].  readable is "yes",
\* "no" (the directory itself cannot be read) or "short" (the directory can
\* be read, one of its tables cannot be read in full).
ExportDirectory(va, size, readable, name, base, ordinals, names, functions) ==
    [VirtualAddress |-> va, Size |-> size, readable |-> readable,
     Name |-> name, Base |-> base, AddressOfNameOrdinals |-> ordinals,
     AddressOfNames |-> names, AddressOfFunctions |-> functions]

\* The string a forwarder export points at.
ForwardingName == "OTHER.Entry"

\* struct ModuleBuilder, as from_memory_view creates it.
ModuleBuilder(name, address, size) ==
    [name |-> name, address |-> address, size |-> size, exports |-> <<>>,
     pdb |-> FALSE, address_map |-> FALSE]

\* ModuleBuilder::read_debug_info: the directory entry is read with
\* read_memory_data, which indexes the first record of what was read and
\* panics when nothing was read; a PDB file that cannot be opened leaves the
\* builder without a PDB.
read_debug_info(builder, image) ==
    CASE image.debug = "none" -> [res |-> "ok", builder |-> builder]
      [] image.debug = "unreadable" -> [res |-> "panic", builder |-> builder]
      [] image.debug = "other" -> [res |-> "ok", builder |-> builder]
      [] OTHER ->
           IF image.pdb_file \in {"missing", "invalid"}
           THEN [res |-> "ok", builder |-> builder]
           ELSE [res |-> "ok",
                 builder |-> [builder EXCEPT !.pdb = TRUE, !.address_map = TRUE]]

\* ordinal_array.iter().position(|&o| o == unbiased_ordinal)
RECURSIVE position(_, _, _)
position(array, value, k) ==
    IF k > Len(array) THEN None
    ELSE IF array[k] = value THEN Some(k)
    ELSE position(array, value, k + 1)

\* An entry that is a forwarder also when its target is the first address
\* past the export directory.
read_export_through_end(builder, dir, i) ==
    LET unbiased_ordinal == i - 1
        ordinal == dir.Base + unbiased_ordinal
        target_address == builder.address + dir.AddressOfFunctions[i]
        export_table_addr == builder.address + dir.VirtualAddress
        export_table_end == export_table_addr + dir.Size
        name_index == position(dir.AddressOfNameOrdinals, unbiased_ordinal, 1)
        export_name == IF name_index = None THEN None
                       ELSE Some(dir.AddressOfNames[Unwrap(name_index)])
    IN  IF target_address >= export_table_addr
           /\ target_address <= export_table_end
        THEN Export(export_name, ordinal, Forwarder(ForwardingName))
        ELSE Export(export_name, ordinal, Rva(target_address))

\* read_exports: the export made of entry i of the address table.
read_export(builder, dir, i) ==
    LET unbiased_ordinal == i - 1
        ordinal == dir.Base + unbiased_ordinal
        target_address == builder.address + dir.AddressOfFunctions[i]
        export_table_addr == builder.address + dir.VirtualAddress
        export_table_end == export_table_addr + dir.Size
        name_index == position(dir.AddressOfNameOrdinals, unbiased_ordinal, 1)
        export_name == IF name_index = None THEN None
                       ELSE Some(dir.AddressOfNames[Unwrap(name_index)])
    IN  IF target_address >= export_table_addr
           /\ target_address < export_table_end
        THEN Export(export_name, ordinal, Forwarder(ForwardingName))
        ELSE Export(export_name, ordinal, Rva(target_address))

\* ModuleBuilder::read_exports: the directory is read with read_memory_data
\* (a panic when nothing was read), its tables with read_memory_full_array
\* (Err(MemorySourceNotEnoughData) when a table is short).
read_exports(builder, image) ==
    IF image.exports = None THEN [res |-> "ok", builder |-> builder]
    ELSE LET dir == Unwrap(image.exports)
         IN  IF dir.readable = "no" THEN [res |-> "panic", builder |-> builder]
             ELSE IF dir.readable = "short"
             THEN [res |-> "err", builder |-> builder]
             ELSE [res |-> "ok",
                   builder |->
                     [builder EXCEPT
                        !.name = IF dir.Name # None /\ builder.name = None
                                 THEN dir.Name ELSE @,
                        !.exports = [i \in DOMAIN dir.AddressOfFunctions |->
                                        read_export(builder, dir, i)]]]

\* struct Module
Module(builder, publics, module_informations) ==
    [name |-> builder.name, address |-> builder.address, size |-> builder.size,
     exports |-> builder.exports, pdb |-> builder.pdb,
     address_map |-> builder.address_map, publics |-> publics,
     module_informations |-> module_informations]

\* ModuleBuilder::build
build(builder, image) ==
    IF ~builder.pdb
    THEN [ok |-> TRUE, module |-> Some(Module(builder, <<>>, <<>>))]
    ELSE IF image.pdb_file = "corrupt"
    THEN [ok |-> FALSE, module |-> None]
    ELSE [ok |-> TRUE,
          module |-> Some(Module(builder, image.publics, image.procedures))]

\* Module::from_memory_view: Ok(module), Err(error), or a panic: of todo!()
\* for a machine that is not AMD64, of read_memory_data where a header or a
\* directory cannot be read.
from_memory_view(address, name, image) ==
    LET Failed(res, err) == [res |-> res, module |-> None, err |-> err]
    IN  IF ~image.readable THEN Failed("panic", "index out of bounds")
        ELSE IF image.Machine # "AMD64" THEN Failed("panic", "todo!")
        ELSE LET b0 == ModuleBuilder(name, address, image.SizeOfImage)
                 d == read_debug_info(b0, image)
             IN  IF d.res # "ok" THEN Failed(d.res, "index out of bounds")
                 ELSE LET e == read_exports(d.builder, image)
                      IN  IF e.res = "panic"
                          THEN Failed("panic", "index out of bounds")
                          ELSE IF e.res = "err"
                          THEN Failed("err", "MemorySourceNotEnoughData")
                          ELSE LET m == build(e.builder, image)
                               IN  IF ~m.ok THEN Failed("err", "Pdb2")
                                   ELSE [res |-> "ok", module |-> m.module,
                                         err |-> ""]

\* Module::name
name(module) ==
    IF module.name # None THEN Unwrap(module.name)
    ELSE << "module_" \o UpperHex(module.address) >>

\* Module::contains_address
contains_address(module, address) ==
    LET end == module.address + module.size
    IN  module.address <= address /\ address < end

\* iter().find(pred): the position of the first element that satisfies
\* Pred, 0 when there is none.
FirstIndex(seq, Pred(_)) ==
    LET hits == { k \in DOMAIN seq : Pred(seq[k]) }
    IN  IF hits = {} THEN 0 ELSE Min(hits)

\* Process::add_module
add_module(mods, address, module_name, image) ==
    LET r == from_memory_view(address, module_name, image)
    IN  [res |-> r.res, err |-> r.err, module |-> r.module,
         modules |-> IF r.res = "ok" THEN Append(mods, Unwrap(r.module))
                     ELSE mods]

\* Process::get_module_by_address(_mut)
get_module_by_address(mods, address) ==
    LET k == FirstIndex(mods, LAMBDA m : contains_address(m, address))
    IN  IF k = 0 THEN None ELSE Some(mods[k])

\* Process::get_module_by_name(_mut)
get_module_by_name(mods, module_name) ==
    LET k == FirstIndex(mods, LAMBDA m : name_equals(name(m), module_name))
    IN  IF k = 0 THEN None ELSE Some(mods[k])

\* Process::module_names
module_names(mods) == [k \in DOMAIN mods |-> name(mods[k])]

\* Module::resolve_symbol: the first Procedure record with the name, through
\* the address map.
resolve_symbol(module, function_name) ==
    IF ~module.address_map THEN None
    ELSE LET k == FirstIndex(module.module_informations,
                             LAMBDA p : p.name = function_name)
         IN  IF k = 0 THEN None
             ELSE Some(module.address + module.module_informations[k].rva)

\* Module::resolve_function
resolve_function(module, function_name) ==
    LET k == FirstIndex(module.exports,
                        LAMBDA e : e.name # None /\ Unwrap(e.name) = function_name)
        from_export == IF k = 0 THEN None ELSE as_rva(module.exports[k].target)
    IN  IF from_export # None THEN from_export
        ELSE resolve_symbol(module, function_name)

\* Result<u64, Error> of name_to_address: the variant, the address of Ok and
\* the payload of the error.
Ok(addr) == [tag |-> "Ok", addr |-> addr, payload |-> <<>>]
Err(variant, payload) == [tag |-> variant, addr |-> 0, payload |-> payload]

\* Process::name_to_address
name_to_address(mods, module_name, function_name) ==
    LET module == get_module_by_name(mods, module_name)
    IN  IF module = None THEN Err("UnknownModuleName", << JoinPath(module_name) >>)
        ELSE LET addr == resolve_function(Unwrap(module), function_name)
             IN  IF addr = None THEN Err("Todo", <<>>) ELSE Ok(Unwrap(addr))

\* Debugger::resolve_symbol
Debugger_resolve_symbol(mods, module_name, function_name) ==
    LET module == get_module_by_name(mods, module_name)
    IN  IF module = None THEN None
        ELSE resolve_function(Unwrap(module), function_name)

\* format!("{}", n) of an ordinal
RECURSIVE Decimal(_)
Decimal(n) ==
    IF n < 10 THEN HexDigit(n)
    ELSE Decimal(n \div 10) \o HexDigit(n % 10)

\* enum AddressMatch with the address that goes with it
AddressMatch(kind, symbol_name, addr) ==
    [kind |-> kind, symbol_name |-> symbol_name, addr |-> addr]
NoMatch == AddressMatch("None", "", 0)

\* AddressMatch::to_symbol_name for an export
export_symbol_name(e) ==
    IF e.name # None THEN Unwrap(e.name) ELSE "Ordinal" \o Decimal(e.ordinal)

\* address_to_name: the loop over the public symbols of the PDB, from
\* position k on.
RECURSIVE closest_public(_, _, _, _, _)
closest_public(module, publics, k, address, closest) ==
    IF k > Len(publics) THEN closest
    ELSE LET data == publics[k]
             global_addr == module.address + data.rva
             next == IF /\ data.function
                        /\ global_addr <= address
                        /\ (closest.kind = "None" \/ closest.addr <= global_addr)
                     THEN AddressMatch("Public", data.name, global_addr)
                     ELSE closest
         IN  closest_public(module, publics, k + 1, address, next)

\* Process::address_to_name
address_to_name(mods, address) ==
    LET found == get_module_by_address(mods, address)
    IN  IF found = None THEN None
        ELSE LET module == Unwrap(found)
                 k == FirstIndex(module.exports,
                                 LAMBDA e : /\ as_rva(e.target) # None
                                            /\ Unwrap(as_rva(e.target)) <= address)
                 from_exports ==
                     IF k = 0 THEN NoMatch
                     ELSE AddressMatch("Export", export_symbol_name(module.exports[k]),
                                       Unwrap(as_rva(module.exports[k].target)))
                 closest == IF module.pdb
                            THEN closest_public(module, module.publics, 1, address,
                                                from_exports)
                            ELSE from_exports
                 offset == address - closest.addr
             IN  IF closest.kind = "None" THEN None
                 ELSE IF offset = 0
                 THEN Some(JoinPath(name(module)) \o "!" \o closest.symbol_name)
                 ELSE Some(JoinPath(name(module)) \o "!" \o closest.symbol_name
                           \o "+0x" \o UpperHex(offset))

---------------------------------------------------------------------------
(* The module registry driven by the events that touch it and by the       *)
(* lookups of the front-end.                                               *)

PublicSymbol(symbol_name, rva, function) ==
    [name |-> symbol_name, rva |-> rva, function |-> function]
Procedure(symbol_name, rva) == [name |-> symbol_name, rva |-> rva]

\* An image with no export directory and no debug directory.
PlainImage == Image(TRUE, "AMD64", 16, "none", "missing", <<>>, <<>>, None)

\* An image that exports Foo (rva 2) and Bar (rva 6) by name, Fwd as a
\* forwarder (rva 9, inside the directory at 8..11) and one function by
\* ordinal only (rva 12); the directory names the image LIB.DLL.
ExportsImage ==
    Image(TRUE, "AMD64", 16, "none", "missing", <<>>, <<>>,
          Some(ExportDirectory(8, 4, "yes", Some(<< "LIB.DLL" >>), 1,
                               << 0, 1, 2 >>, << "Foo", "Bar", "Fwd" >>,
                               << 2, 6, 9, 12 >>)))

\* An image with a CodeView entry whose PDB opens: one export, a public
\* function, a public that is no function, and a procedure.
PdbImage ==
    Image(TRUE, "AMD64", 16, "codeview", "ok",
          << PublicSymbol("pub_a", 4, TRUE), PublicSymbol("data_b", 10, FALSE) >>,
          << Procedure("proc_c", 5) >>,
          Some(ExportDirectory(12, 4, "yes", Some(<< "OTHER.DLL" >>), 1,
                               << 0 >>, << "Foo" >>, << 3 >>)))

\* Images that are not AMD64, or that cannot be read in some part.
I386Image == [PlainImage EXCEPT !.Machine = "I386"]
UnreadableImage == [PlainImage EXCEPT !.readable = FALSE]
BadDebugImage == [ExportsImage EXCEPT !.debug = "unreadable"]
BadExportsImage ==
    [PlainImage EXCEPT !.exports =
        Some(ExportDirectory(8, 4, "no", None, 1, <<>>, <<>>, <<>>))]
ShortTablesImage ==
    [PlainImage EXCEPT !.exports =
        Some(ExportDirectory(8, 4, "short", None, 1, <<>>, <<>>, <<>>))]
CorruptPdbImage == [PdbImage EXCEPT !.pdb_file = "corrupt"]
\* An image whose PDB file is not there, and whose directory has no name.
MissingPdbImage ==
    [PdbImage EXCEPT !.pdb_file = "missing",
                     !.exports = Some(ExportDirectory(12, 4, "yes", None, 1,
                                          << 0 >>, << "Foo" >>, << 3 >>))]

\* LOAD_DLL_DEBUG_INFO: the image name the platform gives (None when
\* lpImageName is null or cannot be read) and the image at lpBaseOfDll.
DllLoads ==
    { << Some(<< "C:", "Lib.dll" >>), ExportsImage >>,
      << None, PdbImage >>,
      << None, MissingPdbImage >>,
      << Some(<< "C:", "Lib.dll" >>), I386Image >>,
      << Some(<< "C:", "Lib.dll" >>), UnreadableImage >>,
      << Some(<< "C:", "Lib.dll" >>), BadDebugImage >>,
      << Some(<< "C:", "Lib.dll" >>), BadExportsImage >>,
      << Some(<< "C:", "Lib.dll" >>), ShortTablesImage >>,
      << None, CorruptPdbImage >> }

\* CREATE_PROCESS_DEBUG_INFO: the file name of the executable and its image.
ExeLoads ==
    { << Some(<< "App.exe" >>), PlainImage >>,
      << Some(<< "App.exe" >>), UnreadableImage >> }

\* Where the platform maps a DLL: above the executable, which is at 0.
DllBases == {16, 32}

\* The module name and the symbol name the front-end asks for.
Queries ==
    { << << "lib.dll" >>, "Foo" >>, << << "lib.dll" >>, "foo" >>,
      << << "lib.dll" >>, "Fwd" >>, << << "c:", "LIB.DLL" >>, "Foo" >>,
      << << "other.dll" >>, "proc_c" >>, << << "other.dll" >>, "Foo" >>,
      << << "other.dll" >>, "nope" >>, << << "module_10" >>, "Foo" >>,
      << << "MODULE_20" >>, "Foo" >>,
      << << "app.exe" >>, "Foo" >>, << << "missing.dll" >>, "Foo" >> }

\* The addresses the front-end asks for: one in the executable, offsets
\* into the place of the DLL, and one address past every image.
QueryOffsets == {1, 2, 3, 4, 6, 13}
QueryAddresses ==
    {1} \cup { b + o : b \in DllBases, o \in QueryOffsets } \cup {48}

\* What a call was given: a module name, a symbol name, an address.
CallArg(module_name, symbol_name, address) ==
    [module_name |-> module_name, symbol_name |-> symbol_name,
     address |-> address]

\* An Option as the variant, the address and the string it holds.
OptionAddr(o) ==
    IF o = None THEN [tag |-> "None", addr |-> 0, payload |-> <<>>]
    ELSE [tag |-> "Some", addr |-> Unwrap(o), payload |-> <<>>]
OptionString(o) ==
    IF o = None THEN [tag |-> "None", addr |-> 0, payload |-> <<>>]
    ELSE [tag |-> "Some", addr |-> 0, payload |-> o]

\* An image file the platform has mapped at base.
Mapped(base, file_name, image) ==
    [base |-> base, size |-> image.SizeOfImage, file_name |-> file_name,
     image |-> image]
Overlaps(a, b) == a.base < b.base + b.size /\ b.base < a.base + a.size

ModulesInit ==
    /\ breakpoints = NewBreakpointManager
    /\ threads = <<>>
    /\ modules = <<>>
    /\ osModules = {}
    /\ osMemory = <<>>
    /\ frames = <<>>
    /\ osAlive = {}
    /\ osCtx = <<>>
    /\ event = None
    /\ state = "idle"
    /\ calls = <<>>
    /\ last = LastCall("run", CallArg(<<>>, "", 0), OptionAddr(None), <<>>, <<>>)
    /\ nEvents = 0
    /\ nOps = 0

\* What pull_event does of an event that registers a module, and the state
\* the front-end loop is left in: Err ends the loop, a panic ends the
\* debugger.
Registered(op, base, module_name, image, r) ==
    /\ modules' = r.modules
    /\ state' = CASE r.res = "ok" -> "idle"
                  [] r.res = "err" -> "error"
                  [] OTHER -> "panicked"
    /\ last' = LastCall(op, CallArg(IF module_name = None THEN <<>>
                                    ELSE Unwrap(module_name), "", base),
                        [tag |-> r.res, addr |-> base, payload |-> << r.err >>],
                        modules, << image >>)

\* pull_event of CREATE_PROCESS_DEBUG_EVENT: DebugEventKind::create_process.
MdCreateProcess(exe_name, image) ==
    /\ state = "idle"
    /\ nEvents = 0
    /\ nEvents' = 1
    /\ threads' = Append(threads, 1)
    /\ osModules' = { Mapped(0, exe_name, image) }
    /\ Registered("create_process", 0, exe_name, image,
                  add_module(modules, 0, exe_name, image))
    /\ UNCHANGED <<breakpoints, osAlive, osCtx, osMemory, event, frames, calls,
                   nOps>>

\* pull_event of LOAD_DLL_DEBUG_EVENT: DebugEventKind::load_dll.  The
\* platform maps an image file where no image is mapped, and maps a file
\* once.
MdLoadDll(base, dll_name, image) ==
    /\ state = "idle"
    /\ nEvents > 0
    /\ nOps < MaxLoads
    /\ nOps' = nOps + 1
    /\ \A m \in osModules :
          /\ ~Overlaps(m, Mapped(base, dll_name, image))
          /\ ~(m.file_name = dll_name /\ m.image = image)
    /\ osModules' = osModules \cup { Mapped(base, dll_name, image) }
    /\ Registered("load_dll", base, dll_name, image,
                  add_module(modules, base, dll_name, image))
    /\ UNCHANGED <<breakpoints, threads, osAlive, osCtx, osMemory, event, frames,
                   calls, nEvents>>

\* pull_event of UNLOAD_DLL_DEBUG_EVENT for the DLL mapped at base: the
\* event becomes DebugEventKind::UnloadDll.
MdUnloadDll(base) ==
    /\ state = "idle"
    /\ \E m \in osModules : m.base = base
    /\ osModules' = { m \in osModules : m.base # base }
    /\ last' = LastCall("unload_dll", CallArg(<<>>, "", base), OptionAddr(None),
                        modules, <<>>)
    /\ UNCHANGED <<breakpoints, threads, modules, osAlive, osCtx, osMemory, event,
                   frames, state,
                   calls, nEvents, nOps>>

\* A lookup of the front-end: the registry stays as the call leaves it.
Lookup(op, arg, ret, mods) ==
    /\ state = "idle"
    /\ nEvents > 0
    /\ modules' = mods
    /\ last' = LastCall(op, arg, ret, modules, <<>>)
    /\ UNCHANGED <<breakpoints, threads, osModules, osAlive, osCtx, osMemory,
                   event, frames, state,
                   calls, nEvents, nOps>>

MdNameToAddress(module_name, function_name) ==
    Lookup("name_to_address", CallArg(module_name, function_name, 0),
           name_to_address(modules, module_name, function_name), modules)

MdResolveSymbol(module_name, function_name) ==
    Lookup("resolve_symbol", CallArg(module_name, function_name, 0),
           OptionAddr(Debugger_resolve_symbol(modules, module_name, function_name)),
           modules)

MdAddressToName(address) ==
    Lookup("address_to_name", CallArg(<<>>, "", address),
           OptionString(IF address_to_name(modules, address) = None THEN None
                        ELSE << Unwrap(address_to_name(modules, address)) >>),
           modules)

ModulesNext ==
    \/ \E load \in ExeLoads : MdCreateProcess(load[1], load[2])
    \/ \E base \in DllBases, load \in DllLoads : MdLoadDll(base, load[1], load[2])
    \/ \E base \in DllBases : MdUnloadDll(base)
    \/ \E q \in Queries : MdNameToAddress(q[1], q[2])
    \/ \E q \in Queries : MdResolveSymbol(q[1], q[2])
    \/ \E a \in QueryAddresses : MdAddressToName(a)

SpecModules == ModulesInit /\ [][ModulesNext]_vars

---------------------------------------------------------------------------
(* Claims about the module registry (checked under SpecModules). *)

\* The registered modules whose range holds the address.
Containing(mods, address) ==
    { k \in DOMAIN mods :
        mods[k].address <= address /\ address < mods[k].address + mods[k].size }

RangesOverlap(a, b) ==
    a.address < b.address + b.size /\ b.address < a.address + a.size

\* C14: after any sequence of load and unload events no two registered
\* modules have overlapping ranges [base, base + size), and the lookup of a
\* module by an address returns the one registered module whose range holds
\* the address, or nothing when no registered module holds it.
C14_ModulesDisjointAndLookupUnique ==
    state = "idle" =>
        /\ \A i, j \in DOMAIN modules :
              i # j => ~RangesOverlap(modules[i], modules[j])
        /\ \A a \in QueryAddresses :
              LET holders == Containing(modules, a)
              IN  /\ Cardinality(holders) <= 1
                  /\ get_module_by_address(modules, a) =
                        IF holders = {} THEN None
                        ELSE Some(modules[CHOOSE k \in holders : TRUE])

\* C15: once the unload event of the module at base b has been processed the
\* module is no longer in the module list, so that no lookup by address or
\* by name resolves to it.
C15_UnloadRemovesModule ==
    last.op = "unload_dll" =>
        /\ \A k \in DOMAIN modules : modules[k].address # last.arg.address
        /\ get_module_by_address(modules, last.arg.address) = None

\* The module is matched by the needle: without regard to case, by its full
\* name or by the last component of its path.
MatchedBy(module, needle) ==
    LET full == LowerName(name(module))
    IN  LowerName(needle) \in { full, << full[Len(full)] >> }

\* The Rva exports of the module that carry exactly this name.
RvaExportsNamed(module, symbol_name) ==
    { k \in DOMAIN module.exports :
        /\ module.exports[k].name = Some(symbol_name)
        /\ module.exports[k].target.kind = "Rva" }

\* C16: for every registered module M, matched without regard to case by its
\* full name or the last component of its path, and every Rva export E of M
\* named n, resolving (M.name, n) returns the resolved target of E; the
\* symbol name is matched exactly, with regard to case.
C16_ResolveReturnsExportTarget ==
    last.op = "resolve_symbol" =>
        \A k \in DOMAIN modules :
            MatchedBy(modules[k], last.arg.module_name) =>
                \A e \in RvaExportsNamed(modules[k], last.arg.symbol_name) :
                    /\ last.ret.tag = "Some"
                    /\ last.ret.addr = modules[k].exports[e].target.value

\* C17: name_to_address fails with UnknownModuleName when no registered
\* module matches the module name, and with UnknownSymbol, carrying the
\* module and the symbol, when the module exists but has no matching export
\* and no matching PDB procedure; the registry is unchanged in both cases.
C17_NameToAddressErrors ==
    last.op = "name_to_address" =>
        LET hits == { k \in DOMAIN modules :
                        MatchedBy(modules[k], last.arg.module_name) }
            module == modules[Min(hits)]
            known == \/ \E e \in DOMAIN module.exports :
                           module.exports[e].name = Some(last.arg.symbol_name)
                     \/ \E p \in DOMAIN module.module_informations :
                           module.module_informations[p].name
                              = last.arg.symbol_name
        IN  /\ modules = last.pre
            /\ hits = {} => last.ret.tag = "UnknownModuleName"
            /\ (hits # {} /\ ~known) =>
                  /\ last.ret.tag = "UnknownSymbol"
                  /\ last.ret.payload = << JoinPath(last.arg.module_name),
                                           last.arg.symbol_name >>

\* The symbols of a module that address_to_name is to consider: its Rva
\* exports and the public function symbols of its PDB, with their addresses.
SymbolsOf(module) ==
    { [symbol_name |-> export_symbol_name(module.exports[k]),
       addr |-> module.exports[k].target.value] :
          k \in { i \in DOMAIN module.exports :
                    module.exports[i].target.kind = "Rva" } }
    \cup
    { [symbol_name |-> module.publics[k].name,
       addr |-> module.address + module.publics[k].rva] :
          k \in { i \in DOMAIN module.publics : module.publics[i].function } }

\* "<module>!<symbol>", with "+0x<offset in hex>" when the offset is not 0.
Symbolized(module, symbol, address) ==
    IF address = symbol.addr
    THEN JoinPath(name(module)) \o "!" \o symbol.symbol_name
    ELSE JoinPath(name(module)) \o "!" \o symbol.symbol_name
            \o "+0x" \o UpperHex(address - symbol.addr)

\* C18: address_to_name(addr) picks, within the module that holds addr, the
\* symbol with the greatest address <= addr among all Rva exports (never a
\* forwarder) and all public function symbols of the PDB; it returns
\* "<module>!<symbol>" when addr is the symbol's address,
\* "<module>!<symbol>+0x<hex offset>" otherwise, and nothing when no symbol
\* precedes addr.  Stated for an address that one registered module holds.
C18_AddressToNameClosestPreceding ==
    (last.op = "address_to_name"
       /\ Cardinality(Containing(modules, last.arg.address)) = 1) =>
        LET module == modules[CHOOSE k \in Containing(modules, last.arg.address) :
                                 TRUE]
            before == { c \in SymbolsOf(module) : c.addr <= last.arg.address }
            closest == { c \in before : \A d \in before : d.addr <= c.addr }
        IN  IF before = {} THEN last.ret.tag = "None"
            ELSE /\ last.ret.tag = "Some"
                 /\ \E c \in closest :
                       last.ret.payload
                          = << Symbolized(module, c, last.arg.address) >>

\* The image the last load or create-process event was given.
LoadedImage == last.hist[1]
ModuleEvent == last.op \in {"load_dll", "create_process"}

\* C19: introspecting a module whose FileHeader.Machine is not AMD64 fails
\* with the error value UnsupportedMachine, the debugger does not abort, and
\* no module is added to the registry.
C19_UnsupportedMachineIsAnError ==
    (ModuleEvent /\ LoadedImage.readable /\ LoadedImage.Machine # "AMD64") =>
        /\ last.ret.tag = "err"
        /\ last.ret.payload = << "UnsupportedMachine" >>
        /\ state # "panicked"
        /\ modules = last.pre

\* C20: whenever the module of a load event has a readable AMD64 PE header
\* the module is registered after the event, also when reading its debug
\* directory, opening or parsing its PDB, or reading its export tables
\* fails; pull_event does not fail.
C20_ReadableModuleIsRegistered ==
    (ModuleEvent /\ LoadedImage.readable /\ LoadedImage.Machine = "AMD64") =>
        /\ last.ret.tag = "ok"
        /\ state = "idle"
        /\ Len(modules) = Len(last.pre) + 1
        /\ modules[Len(modules)].address = last.arg.address

\* A module event registered a module whose image has an export directory.
ExportsParsed ==
    /\ ModuleEvent
    /\ last.ret.tag = "ok"
    /\ LoadedImage.exports # None

\* C29: of the export directory, every entry of the function table whose
\* target base + rva lies in [export_table_start, export_table_end) is
\* recorded as a Forwarder and every other entry as an Rva with that
\* target; there is exactly one export per entry, in the order of the table,
\* and the export of entry i (counted from 0) has ordinal Base + i.
C29_OneExportPerFunctionEntry ==
    ExportsParsed =>
        LET dir == Unwrap(LoadedImage.exports)
            module == modules[Len(modules)]
            export_table_start == last.arg.address + dir.VirtualAddress
            export_table_end == export_table_start + dir.Size
        IN  /\ Len(module.exports) = Len(dir.AddressOfFunctions)
            /\ \A k \in DOMAIN dir.AddressOfFunctions :
                  LET target == last.arg.address + dir.AddressOfFunctions[k]
                  IN  /\ module.exports[k].ordinal = dir.Base + (k - 1)
                      /\ IF export_table_start <= target
                            /\ target < export_table_end
                         THEN module.exports[k].target.kind = "Forwarder"
                         ELSE /\ module.exports[k].target.kind = "Rva"
                              /\ module.exports[k].target.value = target

\* C29 witness: a DLL mapped above the executable was registered with an
\* entry inside the export directory, one at its end and one before it.
C29_Witness ==
    /\ ExportsParsed
    /\ last.arg.address > 0
    /\ LET dir == Unwrap(LoadedImage.exports)
           module == modules[Len(modules)]
       IN  /\ \E k \in DOMAIN module.exports :
                 module.exports[k].target.kind = "Forwarder"
           /\ \E k \in DOMAIN module.exports :
                 /\ module.exports[k].target.kind = "Rva"
                 /\ dir.AddressOfFunctions[k] = dir.VirtualAddress + dir.Size
           /\ \E k \in DOMAIN module.exports :
                 /\ module.exports[k].target.kind = "Rva"
                 /\ dir.AddressOfFunctions[k] < dir.VirtualAddress

---------------------------------------------------------------------------
(* The event loop with the module registry: pull_event where the handlers  *)
(* of create-process and load-dll introspect the image the platform has    *)
(* mapped, and the release of the event.                                   *)

\* The deliveries whose handler does no work on the target that the
\* delivery has to decide, and those of one kind.
OfKind(code) == { d \in Deliveries : d.raw.dwDebugEventCode = code /\ d.sub = "ok" }
ModuleEventCodes ==
    { "CREATE_PROCESS_DEBUG_EVENT", "LOAD_DLL_DEBUG_EVENT",
      "UNLOAD_DLL_DEBUG_EVENT" }

\* pull_event of CREATE_PROCESS_DEBUG_EVENT: the executable is mapped at 0.
PullCreateProcess(delivery, exe_name, image) ==
    /\ PullEventOn(delivery, "none", 0, add_module(modules, 0, exe_name, image))
    /\ osModules' = { Mapped(0, exe_name, image) }
    /\ UNCHANGED <<osMemory, frames>>

\* pull_event of LOAD_DLL_DEBUG_EVENT: the platform maps an image file
\* where no image is mapped, and maps a file once.
PullLoadDll(delivery, base, dll_name, image) ==
    /\ Cardinality(osModules) <= MaxLoads
    /\ \A m \in osModules :
          /\ ~Overlaps(m, Mapped(base, dll_name, image))
          /\ ~(m.file_name = dll_name /\ m.image = image)
    /\ PullEventOn(delivery, "none", base,
                   add_module(modules, base, dll_name, image))
    /\ osModules' = osModules \cup { Mapped(base, dll_name, image) }
    /\ UNCHANGED <<osMemory, frames>>

\* pull_event of UNLOAD_DLL_DEBUG_EVENT for the DLL mapped at base.
PullUnloadDll(delivery, base) ==
    /\ \E m \in osModules : m.base = base
    /\ PullEventOn(delivery, "none", base,
                   [res |-> "ok", modules |-> modules])
    /\ osModules' = { m \in osModules : m.base # base }
    /\ UNCHANGED <<osMemory, frames>>

PullNext ==
    \/ \E delivery \in OfKind("CREATE_PROCESS_DEBUG_EVENT"), load \in ExeLoads :
          PullCreateProcess(delivery, load[1], load[2])
    \/ \E delivery \in OfKind("LOAD_DLL_DEBUG_EVENT"), base \in DllBases,
          load \in DllLoads :
          PullLoadDll(delivery, base, load[1], load[2])
    \/ \E delivery \in OfKind("UNLOAD_DLL_DEBUG_EVENT"), base \in DllBases :
          PullUnloadDll(delivery, base)
    \/ \E delivery \in Deliveries :
          /\ delivery.raw.dwDebugEventCode \notin ModuleEventCodes
          /\ PullEvent(delivery, "none")
    \/ \E delivery \in FailingDeliveries, fail \in PlatformFailures \ {"none"} :
          PullEvent(delivery, fail)
    \/ Release
    \/ \E addr \in SomeAddrs : AddBreakpoint(addr)

SpecPull == Init /\ [][PullNext]_vars

---------------------------------------------------------------------------
(* Claims about the registries over the event loop (checked under          *)
(* SpecPull).                                                              *)

\* The registries after the pull_event are what the row of the event's kind
\* says: the thread of a create-process or create-thread event is added to
\* the thread list, the module of a create-process or load-dll event is
\* added to the module list at the base of its image, and nothing else is
\* changed.  The rows of exit-thread and unload-dll are not part of this.
FollowsEventTable ==
    LET raw == last.pre.raw
        code == raw.dwDebugEventCode
        ThreadAdded == threads = Append(last.pre.threads, raw.dwThreadId)
        ModuleAdded ==
            /\ Len(modules) = Len(last.pre.modules) + 1
            /\ SubSeq(modules, 1, Len(last.pre.modules)) = last.pre.modules
            /\ modules[Len(modules)].address = last.pre.base
    IN  /\ code = "CREATE_PROCESS_DEBUG_EVENT" =>
              ThreadAdded /\ ModuleAdded /\ breakpoints = last.pre.breakpoints
        /\ code = "CREATE_THREAD_DEBUG_EVENT" =>
              /\ ThreadAdded
              /\ modules = last.pre.modules
              /\ breakpoints = last.pre.breakpoints
        /\ code = "LOAD_DLL_DEBUG_EVENT" =>
              /\ ModuleAdded
              /\ threads = last.pre.threads
              /\ breakpoints = last.pre.breakpoints
        /\ code \in { "EXCEPTION_DEBUG_EVENT", "OUTPUT_DEBUG_STRING_EVENT",
                      "RIP_EVENT", "EXIT_PROCESS_DEBUG_EVENT" } =>
              /\ threads = last.pre.threads
              /\ modules = last.pre.modules
              /\ breakpoints = last.pre.breakpoints

\* C28: pull_event updates the registries only as the event table states:
\* create-process adds the thread of the event and registers the executable
\* at its load base, create-thread adds the created thread, load-dll
\* registers one module at the base of the DLL, and exception,
\* output-debug-string, rip and exit-process events leave the thread list,
\* the module list and the breakpoint table as they were.
C28_RegistriesFollowEventTable == Dispatched => FollowsEventTable

\* Every pull_event that yields an event has followed the table.
YieldedEventFollowsTable == (Dispatched /\ state = "event") => FollowsEventTable

---------------------------------------------------------------------------
(* The stack walk (src/stack.rs, src/stack/stack_unwind.rs, src/memory.rs). *)
(* A context is Rip and the sixteen integer registers, numbered as enum    *)
(* Register numbers them.  The memory of the target is                     *)
(*   words      the 8-byte words that can be read, by address              *)
(*   functions  the RUNTIME_FUNCTION records that can be read, by the       *)
(*              address of the table                                       *)
(*   unwind     the UNWIND_INFO headers that can be read, by address, each  *)
(*              with the code slots that can be read after it              *)

RegRsp == 4
RegRbp == 5
Registers == 0 .. 15

\* AlignedContext: Rip and the integer registers.
Context(rip, rsp, rbp) ==
    [Rip |-> rip,
     regs |-> [r \in Registers |->
                 IF r = RegRsp THEN rsp ELSE IF r = RegRbp THEN rbp ELSE 0]]

\* StackFrame::new
StackFrame(context) == [context |-> context]

\* MemorySource::read_memory_array of the records at an address: as many as
\* can be read, at most max_count.  read_raw_memory turns a failed platform
\* read into zero bytes, so the result is never an Err.
read_memory_array(region, address, max_count) ==
    IF address \in DOMAIN region
    THEN SubSeq(region[address], 1, Min({max_count, Len(region[address])}))
    ELSE <<>>

\* MemorySource::read_memory_full_array: Err(MemorySourceNotEnoughData)
\* unless count records were read.
read_memory_full_array(region, address, count) ==
    LET result == read_memory_array(region, address, count)
    IN  IF Len(result) = count THEN [res |-> "ok", data |-> result]
        ELSE [res |-> "err", data |-> <<>>]

\* MemorySource::read_memory_data: data[0] of an array of one, which is an
\* index out of bounds, a panic, when nothing was read.
read_memory_data(region, address) ==
    LET data == read_memory_array(region, address, 1)
    IN  IF Len(data) = 0 THEN [res |-> "panic", value |-> 0]
        ELSE [res |-> "ok", value |-> data[1]]

\* The 8-byte words of the memory as a region of one-record arrays.
WordRegion(memory) == [a \in DOMAIN memory.words |-> << memory.words[a] >>]
InfoRegion(memory) == [a \in DOMAIN memory.unwind |-> << memory.unwind[a] >>]

\* RUNTIME_FUNCTION and UNWIND_INFO (stack/ffi.rs); codes are the u16 slots
\* that can be read at info_addr + 4.
RUNTIME_FUNCTION(begin, end, unwind_info) ==
    [BeginAddress |-> begin, EndAddress |-> end, UnwindInfo |-> unwind_info]
UNWIND_INFO(version_flags, count_of_codes, frame_register_offset, codes) ==
    [version_flags |-> version_flags, count_of_codes |-> count_of_codes,
     frame_register_offset |-> frame_register_offset, codes |-> codes]

\* The unwind operation codes.
UWOP_PUSH_NONVOL == 0
UWOP_ALLOC_LARGE == 1
UWOP_ALLOC_SMALL == 2
UWOP_SET_FPREG == 3
UWOP_SAVE_NONVOL == 4
UWOP_SAVE_NONVOL_FAR == 5
UWOP_SAVE_XMM128 == 8
UWOP_SAVE_XMM128_FAR == 9
UWOP_PUSH_MACHFRAME == 10
UNW_FLAG_CHAININFO == 4

\* A code slot as the image stores it: code_offset in the low 8 bits, the
\* operation in the next 4, op_info in the high 4.
Slot(code_offset, unwind_op, op_info) ==
    code_offset + 256 * unwind_op + 4096 * op_info

\* struct UnwindCode with its UnwindOp.
UnwindCode(code_offset, op, reg, amount) ==
    [code_offset |-> code_offset, op |-> op, reg |-> reg, amount |-> amount]

\* A two-slot value with its slots taken in the other order.
far_value_swapped(lo, hi) == hi + lo * 65536

\* code_slots[i + 1] as u32 + ((code_slots[i + 2] as u32) << 16)
far_value(lo, hi) == lo + hi * 65536

\* An op that is taken for incomplete when its last slot is the last slot of
\* the array.
slots_missing_at_end(i, extra, len) == i + extra + 1 >= len

\* if i + extra >= code_slots.len(): the op at index i (counted from 0) has
\* not all of its extra slots in the array.
slots_missing(i, extra, len) == i + extra >= len

\* enum UnwindCodeParseError with its payload
UnwindCodeParseError(variant, payload) ==
    [res |-> "err", ops |-> <<>>, err |-> << variant, payload >>]

\* A splitter that masks every field out of the unshifted value.
split_up_unshifted(value, lens) ==
    [k \in 1 .. Len(lens) |-> value % (2 ^ lens[k])]

\* macro split_up!(value => len, ...): for each length in turn,
\* field = _value & ((1 << len) - 1); _value >>= len; the fields as a tuple.
RECURSIVE split_up(_, _)
split_up(value, lens) ==
    IF lens = <<>> THEN <<>>
    ELSE << value % (2 ^ Head(lens)) >>
             \o split_up(value \div (2 ^ Head(lens)), Tail(lens))

\* impl TryFrom<u8> for Register: the numbers 0..15 are registers.
Register_try_from(value) == IF value \in 0 .. 15 THEN Some(value) ELSE None

\* parse_unwind_ops, from slot i on; ops is what has been parsed so far.
RECURSIVE parse_from(_, _, _, _, _)
parse_from(code_slots, i, frame_register, frame_offset, ops) ==
    IF i > Len(code_slots) THEN [res |-> "ok", ops |-> ops, err |-> <<>>]
    ELSE
      LET fields == split_up(code_slots[i], << 8, 4, 4 >>)
          code_offset == fields[1]
          unwind_op == fields[2]
          op_info == fields[3]
          Missing(extra) == slots_missing(i - 1, extra, Len(code_slots))
          Incomplete == UnwindCodeParseError("IncompleteOp", unwind_op)
          Push(op, used) ==
              parse_from(code_slots, i + used + 1, frame_register, frame_offset,
                         Append(ops, op))
          \* reg.try_into().map_err(UnwindCodeParseError::InvalidRegister)?
          WithRegister(reg, op, amount, used) ==
              IF Register_try_from(reg) = None
              THEN UnwindCodeParseError("InvalidRegister", reg)
              ELSE Push(UnwindCode(code_offset, op, reg, amount), used)
      IN  CASE unwind_op = UWOP_PUSH_NONVOL ->
                 WithRegister(op_info, "PushNonVolatile", 0, 0)
            [] unwind_op = UWOP_ALLOC_LARGE /\ op_info = 0 ->
                 IF Missing(1) THEN Incomplete
                 ELSE Push(UnwindCode(code_offset, "Alloc", 0,
                                      code_slots[i + 1] * 8), 1)
            [] unwind_op = UWOP_ALLOC_LARGE /\ op_info = 1 ->
                 IF Missing(2) THEN Incomplete
                 ELSE Push(UnwindCode(code_offset, "Alloc", 0,
                                      far_value(code_slots[i + 1],
                                                code_slots[i + 2])), 2)
            [] unwind_op = UWOP_ALLOC_SMALL ->
                 Push(UnwindCode(code_offset, "Alloc", 0, op_info * 8 + 8), 0)
            [] unwind_op = UWOP_SET_FPREG ->
                 WithRegister(frame_register, "SetFpreg", frame_offset, 0)
            [] unwind_op = UWOP_SAVE_NONVOL ->
                 IF Missing(1) THEN Incomplete
                 ELSE WithRegister(op_info, "SaveNonVolatile",
                                   code_slots[i + 1], 1)
            [] unwind_op = UWOP_SAVE_NONVOL_FAR ->
                 IF Missing(2) THEN Incomplete
                 ELSE WithRegister(op_info, "SaveNonVolatile",
                                   far_value(code_slots[i + 1],
                                             code_slots[i + 2]), 2)
            [] unwind_op = UWOP_SAVE_XMM128 ->
                 IF Missing(1) THEN Incomplete
                 ELSE WithRegister(op_info, "SaveXmm128", code_slots[i + 1], 1)
            [] unwind_op = UWOP_SAVE_XMM128_FAR ->
                 IF Missing(2) THEN Incomplete
                 ELSE WithRegister(op_info, "SaveXmm128",
                                   far_value(code_slots[i + 1],
                                             code_slots[i + 2]), 2)
            [] OTHER -> UnwindCodeParseError("UnknownOp", unwind_op)

\* parse_unwind_ops
parse_unwind_ops(code_slots, frame_register, frame_offset) ==
    parse_from(code_slots, 1, frame_register, frame_offset, <<>>)

\* UnwindCode::apply with the guard turned around at the boundary: an op
\* whose code_offset equals the offset into the function is skipped too.
apply_skips_equal(op, context, func_address, memory) ==
    LET func_offset == context.Rip - func_address
        rsp == context.regs[RegRsp]
        Done(regs) == [res |-> "ok", context |-> [context EXCEPT !.regs = regs]]
        Panic == [res |-> "panic", context |-> context]
    IN  IF op.code_offset >= func_offset THEN Done(context.regs)
        ELSE CASE op.op = "Alloc" ->
                    Done([context.regs EXCEPT ![RegRsp] = rsp + op.amount])
               [] op.op = "PushNonVolatile" ->
                    LET val == read_memory_data(WordRegion(memory), rsp)
                    IN  IF val.res # "ok" THEN Panic
                        ELSE Done([[context.regs EXCEPT ![op.reg] = val.value]
                                      EXCEPT ![RegRsp] = @ + 8])
               [] op.op = "SaveNonVolatile" ->
                    LET val == read_memory_data(WordRegion(memory),
                                                rsp + op.amount)
                    IN  IF val.res # "ok" THEN Panic
                        ELSE Done([context.regs EXCEPT ![op.reg] = val.value])
               [] op.op = "SetFpreg" ->
                    Done([context.regs EXCEPT
                            ![RegRsp] = context.regs[op.reg] - op.amount])
               [] OTHER -> Panic

\* UnwindCode::apply: Ok(context), or a panic: of read_memory_data where the
\* stack cannot be read, of todo!("unwind op") for SaveXmm128.
apply(op, context, func_address, memory) ==
    LET func_offset == context.Rip - func_address
        rsp == context.regs[RegRsp]
        Done(regs) == [res |-> "ok", context |-> [context EXCEPT !.regs = regs]]
        Panic == [res |-> "panic", context |-> context]
    IN  IF op.code_offset > func_offset THEN Done(context.regs)
        ELSE CASE op.op = "Alloc" ->
                    Done([context.regs EXCEPT ![RegRsp] = rsp + op.amount])
               [] op.op = "PushNonVolatile" ->
                    LET val == read_memory_data(WordRegion(memory), rsp)
                    IN  IF val.res # "ok" THEN Panic
                        ELSE Done([[context.regs EXCEPT ![op.reg] = val.value]
                                      EXCEPT ![RegRsp] = @ + 8])
               [] op.op = "SaveNonVolatile" ->
                    LET val == read_memory_data(WordRegion(memory),
                                                rsp + op.amount)
                    IN  IF val.res # "ok" THEN Panic
                        ELSE Done([context.regs EXCEPT ![op.reg] = val.value])
               [] op.op = "SetFpreg" ->
                    Done([context.regs EXCEPT
                            ![RegRsp] = context.regs[op.reg] - op.amount])
               [] OTHER -> Panic

\* unwind_ops.into_iter().try_fold(self.context, |c, op| op.apply(..)), from
\* op k on; trace is the context before every op applied so far.
RECURSIVE try_fold(_, _, _, _, _, _)
try_fold(ops, k, context, func_address, memory, trace) ==
    IF k > Len(ops)
    THEN [res |-> "ok", context |-> context, trace |-> Append(trace, context)]
    ELSE LET r == apply(ops[k], context, func_address, memory)
         IN  IF r.res # "ok"
             THEN [res |-> r.res, context |-> context,
                   trace |-> Append(trace, context)]
             ELSE try_fold(ops, k + 1, r.context, func_address, memory,
                           Append(trace, context))

\* Module::get_data_directory(IMAGE_DIRECTORY_ENTRY_EXCEPTION)
get_data_directory(module) ==
    LET result == module.pe_header.exception
    IN  IF result.Size = 0 \/ result.VirtualAddress = 0 THEN None
        ELSE Some(result)

\* size_of::<RUNTIME_FUNCTION>()
RuntimeFunctionSize == 12

\* A search that knows the exact match only.
find_runtime_function_exact(addr, function_list) ==
    LET exact == { k \in DOMAIN function_list :
                     function_list[k].BeginAddress = addr }
    IN  IF exact # {} THEN Some(function_list[Min(exact)]) ELSE None

\* find_runtime_function: the binary search by BeginAddress of a table
\* sorted by BeginAddress, then the range checks around the insertion point.
find_runtime_function(addr, function_list) ==
    LET exact == { k \in DOMAIN function_list :
                     function_list[k].BeginAddress = addr }
        pos == Cardinality({ k \in DOMAIN function_list :
                               function_list[k].BeginAddress < addr })
        Covers(k) == /\ function_list[k].BeginAddress <= addr
                     /\ addr < function_list[k].EndAddress
    IN  IF exact # {} THEN Some(function_list[Min(exact)])
        ELSE IF pos > 0 /\ Covers(pos) THEN Some(function_list[pos])
        ELSE IF pos < Len(function_list) /\ Covers(pos + 1)
        THEN Some(function_list[pos + 1])
        ELSE None

\* What find_parent returns, with the way it was found (path), the ops it
\* applied, the function they belong to and the contexts between them.
Parent(res, context, path, ops, func_address, trace) ==
    [res |-> res, context |-> context, path |-> path, ops |-> ops,
     func_address |-> func_address, trace |-> trace]

\* The return address popped into Rip: read_memory_data at Rsp, Rsp += 8.
pop_rip(context, memory) ==
    LET ret == read_memory_data(WordRegion(memory), context.regs[RegRsp])
    IN  [res |-> ret.res,
         context |-> [context EXCEPT !.Rip = ret.value,
                                     !.regs[RegRsp] = @ + 8]]

\* StackFrame::find_parent: Some(frame), None, or a panic.
find_parent(context, mods, memory) ==
    LET Gone(path) == Parent("None", context, path, <<>>, 0, <<>>)
        module == get_module_by_address(mods, context.Rip)
    IN  IF module = None THEN Gone("no module")
        ELSE
        LET m == Unwrap(module)
            data_directory == get_data_directory(m)
        IN  IF data_directory = None THEN Gone("no directory")
            ELSE
            LET dir == Unwrap(data_directory)
                count == dir.Size \div RuntimeFunctionSize
                table_address == m.address + dir.VirtualAddress
                functions == read_memory_array(memory.functions, table_address,
                                               count)
                rva == context.Rip - m.address
                function == find_runtime_function(rva, functions)
            IN  IF function = None
                THEN LET p == pop_rip(context, memory)
                     IN  IF p.res # "ok"
                         THEN Parent("panic", context, "fallback", <<>>, 0, <<>>)
                         ELSE Parent("Some", p.context, "fallback", <<>>, 0, <<>>)
                ELSE
                LET f == Unwrap(function)
                    info_addr == m.address + f.UnwindInfo
                    info == read_memory_data(InfoRegion(memory), info_addr)
                    Failed(res) == Parent(res, context, "unwind", <<>>, 0, <<>>)
                IN  IF info.res # "ok" THEN Failed("panic")
                    ELSE
                    LET flags == split_up(info.value.version_flags,
                                          << 3, 5 >>)[2]
                        register_offset ==
                            split_up(info.value.frame_register_offset,
                                     << 4, 4 >>)
                        frame_register == register_offset[1]
                        frame_offset == register_offset[2] * 16
                        codes == read_memory_full_array(
                                     [a \in {info_addr + 4} |-> info.value.codes],
                                     info_addr + 4, info.value.count_of_codes)
                        func_address == m.address + f.BeginAddress
                    IN  IF (flags \div UNW_FLAG_CHAININFO) % 2 = 1
                        THEN Failed("panic")
                        ELSE IF codes.res # "ok" THEN Failed("None")
                        ELSE
                        LET unwind_ops == parse_unwind_ops(codes.data,
                                              frame_register, frame_offset)
                        IN  IF unwind_ops.res # "ok" THEN Failed("None")
                            ELSE
                            LET ctx == try_fold(unwind_ops.ops, 1, context,
                                                func_address, memory, <<>>)
                                p == pop_rip(ctx.context, memory)
                                Unwound(res, c) ==
                                    Parent(res, c, "unwind", unwind_ops.ops,
                                           func_address, ctx.trace)
                            IN  IF ctx.res # "ok" THEN Unwound("panic", context)
                                ELSE IF p.res # "ok"
                                THEN Unwound("panic", ctx.context)
                                ELSE IF p.context.Rip = 0
                                THEN Unwound("None", p.context)
                                ELSE Unwound("Some", p.context)

---------------------------------------------------------------------------
(* The stack walk of an event in flight: DebugEvent::stack_frames, one     *)
(* find_parent per step.                                                   *)

\* A registered module as the walk sees it: its range and the exception
\* data directory of its PE header.
StackModule(file_name, address, size, exception_va, exception_size) ==
    [pe_header |-> [exception |-> [VirtualAddress |-> exception_va,
                                   Size |-> exception_size]]]
       @@ Module(ModuleBuilder(Some(<< file_name >>), address, size), <<>>, <<>>)

\* The executable at 32 has no exception directory; the DLL at 16 has a
\* table of one RUNTIME_FUNCTION at rva 8, for the function at rva 2..7
\* whose UNWIND_INFO is at rva 12.
StackModules ==
    << StackModule("App.exe", 32, 16, 0, 0),
       StackModule("Lib.dll", 16, 16, 8, RuntimeFunctionSize) >>
FunctionTables == [a \in {24} |-> << RUNTIME_FUNCTION(2, 8, 12) >>]
UnwindInfoAddr == 28

\* UNWIND_INFO headers: version 1, no flags, frame register Rbp with frame
\* offset 0, and the code slots; declared in the order the image stores
\* them, the op latest in the prolog first.
Unwind(codes) == UNWIND_INFO(1, Len(codes), RegRbp, codes)
UnwindInfos ==
    { Unwind(<< Slot(1, UWOP_ALLOC_SMALL, 0) >>),
      Unwind(<< Slot(3, UWOP_ALLOC_SMALL, 0), Slot(1, UWOP_PUSH_NONVOL, RegRbp) >>),
      Unwind(<< Slot(3, UWOP_ALLOC_SMALL, 0), Slot(2, UWOP_SET_FPREG, 0),
                Slot(1, UWOP_PUSH_NONVOL, RegRbp) >>),
      Unwind(<< Slot(2, UWOP_SET_FPREG, 0) >>),
      Unwind(<< Slot(1, UWOP_SAVE_NONVOL, RegRbp), 8 >>),
      Unwind(<< Slot(1, UWOP_SAVE_XMM128, 6), 0 >>),
      Unwind(<< Slot(3, UWOP_SAVE_XMM128, 6), 0 >>),
      Unwind(<< Slot(1, UWOP_PUSH_MACHFRAME, 0) >>),
      Unwind(<< Slot(1, UWOP_ALLOC_LARGE, 0) >>),
      UNWIND_INFO(1, 2, RegRbp, << Slot(1, UWOP_ALLOC_SMALL, 0) >>),
      UNWIND_INFO(1 + 8 * UNW_FLAG_CHAININFO, 0, RegRbp, <<>>) }

\* The stack: three words that can be read, each 0 or an address in the
\* function, in the DLL outside every function, in the executable, or in
\* no module.
StackAddrs == {64, 72, 80}
ReturnAddrs == {0, 20, 26, 36}
InitialRips == {20, 26, 36, 50}
InitialRbps == {64, 72}

\* The target memories: the stack words, the function table (readable or
\* not) and the UNWIND_INFO (readable or not).
TargetMemories ==
    { [words |-> w, functions |-> f, unwind |-> u] :
        w \in [StackAddrs -> ReturnAddrs],
        f \in { FunctionTables },
        u \in { [a \in {UnwindInfoAddr} |-> i] : i \in UnwindInfos } }
    \cup
    { [words |-> w, functions |-> f, unwind |-> <<>>] :
        w \in [StackAddrs -> ReturnAddrs],
        f \in { FunctionTables, <<>> } }

NoParent == Parent("None", Context(0, 0, 0), "", <<>>, 0, <<>>)

\* The target runs, with its modules registered.
StackInit ==
    /\ breakpoints = NewBreakpointManager
    /\ threads = << 1 >>
    /\ modules = StackModules
    /\ osModules = {}
    /\ osAlive = {1}
    /\ osCtx = <<>>
    /\ osMemory = <<>>
    /\ event = None
    /\ frames = <<>>
    /\ state = "idle"
    /\ calls = <<>>
    /\ last = LastCall("run", Context(0, 0, 0), NoParent, <<>>, <<>>)
    /\ nEvents = 1
    /\ nOps = 0

\* pull_event yields an event for the thread, which has stopped at some Rip
\* with the memory of the target as the target left it.
StackEvent(memory, context) ==
    /\ state = "idle"
    /\ nEvents < 2
    /\ nEvents' = nEvents + 1
    /\ osMemory' = memory
    /\ event' = Some(DebugEvent(DebugEventKind("RipEvent", None),
                                RawEvent("RIP_EVENT", 1, "", FALSE, FALSE),
                                context))
    /\ state' = "event"
    /\ last' = LastCall("pull_event", context, NoParent, <<>>, <<>>)
    /\ UNCHANGED <<breakpoints, threads, modules, osModules, osAlive, osCtx,
                   frames, calls, nOps>>

\* stack_frames up to its loop: the frame of the event's context is pushed.
StackFramesBegin ==
    /\ state = "event"
    /\ frames = <<>>
    /\ frames' = << StackFrame(Unwrap(event).ctx) >>
    /\ state' = "walking"
    /\ last' = LastCall("stack_frames", Unwrap(event).ctx, NoParent, <<>>, <<>>)
    /\ UNCHANGED <<breakpoints, threads, modules, osModules, osAlive, osCtx,
                   osMemory, event, calls, nEvents, nOps>>

\* One turn of the loop of stack_frames: find_parent of the current frame;
\* a parent is pushed and becomes the current frame, None ends the loop and
\* the frames are returned to the front-end, a panic ends the debugger.
FindParentStep ==
    /\ state = "walking"
    /\ Len(frames) < MaxFrames
    /\ LET current == LastOf(frames)
           parent == find_parent(current.context, modules, osMemory)
       IN  /\ frames' = IF parent.res = "Some"
                        THEN Append(frames, StackFrame(parent.context))
                        ELSE frames
           /\ state' = CASE parent.res = "Some" -> "walking"
                         [] parent.res = "None" -> "walked"
                         [] OTHER -> "panicked"
           /\ last' = LastCall("find_parent", current.context, parent, frames,
                               <<>>)
    /\ UNCHANGED <<breakpoints, threads, modules, osModules, osAlive, osCtx,
                   osMemory, event, calls, nEvents, nOps>>

StackNext ==
    \/ \E memory \in TargetMemories, rip \in InitialRips, rbp \in InitialRbps :
          StackEvent(memory, Context(rip, 64, rbp))
    \/ StackFramesBegin
    \/ FindParentStep

SpecStack == StackInit /\ [][StackNext]_vars

---------------------------------------------------------------------------
(* Claims about the stack walk (checked under SpecStack). *)

FoundParent == last.op = "find_parent"
Current == last.arg
Rsp(context) == context.regs[RegRsp]

\* The RUNTIME_FUNCTION records of the module that can be read and cover rva.
Covering(module, rva) ==
    LET table == module.address + module.pe_header.exception.VirtualAddress
        count == module.pe_header.exception.Size \div RuntimeFunctionSize
        functions == IF table \in DOMAIN osMemory.functions
                     THEN osMemory.functions[table] ELSE <<>>
    IN  { k \in DOMAIN functions :
            /\ k <= count
            /\ functions[k].BeginAddress <= rva
            /\ rva < functions[k].EndAddress }

NoDirectory(module) ==
    \/ module.pe_header.exception.VirtualAddress = 0
    \/ module.pe_header.exception.Size = 0

\* No unwind information applies to the context: no registered module holds
\* Rip, the module has no exception directory, or no RUNTIME_FUNCTION covers
\* the rva of Rip.
NoUnwindInfo(context) ==
    LET holders == Containing(modules, context.Rip)
    IN  \/ holders = {}
        \/ \E k \in holders :
              \/ NoDirectory(modules[k])
              \/ Covering(modules[k], context.Rip - modules[k].address) = {}

\* The fallback: the new Rip is the word at Rsp, Rsp advances by 8, nothing
\* else changes.
Fallback(context) ==
    [context EXCEPT !.Rip = osMemory.words[Rsp(context)],
                    !.regs[RegRsp] = @ + 8]

\* C21: find_parent takes the fallback (new Rip = the 8 bytes at Rsp, Rsp
\* advanced by 8, every other register unchanged) in each of three cases: no
\* registered module holds Rip, the module has no exception data directory,
\* no RUNTIME_FUNCTION covers the rva of Rip.  Stated for a stack word that
\* can be read and is not 0.
C21_FallbackInAllThreeCases ==
    (/\ FoundParent
     /\ NoUnwindInfo(Current)
     /\ Rsp(Current) \in DOMAIN osMemory.words
     /\ osMemory.words[Rsp(Current)] # 0) =>
        /\ last.ret.res = "Some"
        /\ last.ret.context = Fallback(Current)

\* C22: the walk ends as soon as a pop of the return address yields Rip = 0,
\* on the unwind path and on the fallback path: no frame that find_parent
\* made and stack_frames returns has Rip = 0.
C22_NoFrameWithZeroRip ==
    state = "walked" =>
        \A k \in 2 .. Len(frames) : frames[k].context.Rip # 0

\* C23: for every thread context, module table and memory of the target,
\* stack_frames terminates with a finite chain of frames.  find_parent is a
\* function of the frame, the modules and the memory, and the loop changes
\* none but the frame: the walk terminates if and only if it never comes
\* back to a frame it has been in.
C23_WalkTerminates ==
    \A i, j \in DOMAIN frames : i < j => frames[i] # frames[j]

\* C24: a failure while one frame is unwound (memory that cannot be read, an
\* unwind op that does not parse, CHAININFO, an op that apply does not
\* implement) ends the walk without ending the debugger, and stack_frames
\* returns the frames gathered before the failure.
C24_FailureEndsWalkOnly ==
    (FoundParent /\ last.ret.res # "Some") =>
        /\ state = "walked"
        /\ frames = last.pre

\* What the unwind op is to do to the context (UWOP_* of the x64 ABI).
Effect(op, context) ==
    LET regs == context.regs
    IN  CASE op.op = "Alloc" ->
               [context EXCEPT !.regs[RegRsp] = @ + op.amount]
          [] op.op = "PushNonVolatile" ->
               [context EXCEPT
                  !.regs = [r \in Registers |->
                              IF r = RegRsp THEN regs[RegRsp] + 8
                              ELSE IF r = op.reg
                              THEN osMemory.words[regs[RegRsp]]
                              ELSE regs[r]]]
          [] op.op = "SaveNonVolatile" ->
               [context EXCEPT
                  !.regs[op.reg] = osMemory.words[regs[RegRsp] + op.amount]]
          [] op.op = "SetFpreg" ->
               [context EXCEPT !.regs[RegRsp] = regs[op.reg] - op.amount]
          [] OTHER -> context

\* The ops of the last find_parent that ran to their end: op k took the
\* context from trace[k] to trace[k + 1].
AppliedOps ==
    IF FoundParent THEN { k \in DOMAIN last.ret.ops : k < Len(last.ret.trace) }
    ELSE {}
OffsetInFunction(context) == context.Rip - last.ret.func_address

\* C30: when the unwind ops of a function are applied in declaration order,
\* an op takes effect if and only if its code_offset <= Rip - func_begin; an
\* op with a greater code_offset leaves the context unchanged, and no op
\* changes Rip before the return address is popped.
C30_OpGuardedByCodeOffset ==
    \A k \in AppliedOps :
        LET op == last.ret.ops[k]
            before == last.ret.trace[k]
            after == last.ret.trace[k + 1]
        IN  /\ after.Rip = before.Rip
            /\ IF op.code_offset <= OffsetInFunction(before)
               THEN after = Effect(op, before)
               ELSE after = before

\* An op at the very offset of Rip took effect and moved Rsp, after an op
\* of a greater offset was passed over.
C30_Witness ==
    /\ \E k \in AppliedOps :
          /\ last.ret.ops[k].code_offset = OffsetInFunction(last.ret.trace[k])
          /\ Rsp(last.ret.trace[k + 1]) # Rsp(last.ret.trace[k])
    /\ \E k \in AppliedOps :
          last.ret.ops[k].code_offset > OffsetInFunction(last.ret.trace[k])

\* The walk is followed up to MaxFrames frames: it gets that far only when
\* it has come back to a frame it has been in.
CutOnlyWhenRepeating ==
    (state = "walking" /\ Len(frames) = MaxFrames) =>
        \E i, j \in DOMAIN frames : i < j /\ frames[i] = frames[j]

---------------------------------------------------------------------------
(* The reads of the MemorySource (src/memory.rs) on their own: the target  *)
(* shows some records at an address, fewer than asked for or none where    *)
(* the platform read stops short or fails.                                 *)

ReadAddrs == {64, 72}
RecordValues == {1, 2}
RECURSIVE SeqsUpTo(_)
SeqsUpTo(n) ==
    IF n = 0 THEN { <<>> }
    ELSE SeqsUpTo(n - 1)
         \cup { Append(q, v) : q \in { x \in SeqsUpTo(n - 1) : Len(x) = n - 1 },
                               v \in RecordValues }

\* What can be read at each address; at 80 nothing can.
ReadableRegions == [ReadAddrs -> SeqsUpTo(MaxRecords)]

ReadArg(address, count) == [address |-> address, count |-> count]
ReadResult(res, data) == [res |-> res, data |-> data]

MemoryInit ==
    /\ breakpoints = NewBreakpointManager
    /\ threads = << 1 >>
    /\ modules = <<>>
    /\ osModules = {}
    /\ osAlive = {1}
    /\ osCtx = <<>>
    /\ osMemory \in ReadableRegions
    /\ event = None
    /\ frames = <<>>
    /\ state = "idle"
    /\ calls = <<>>
    /\ last = LastCall("run", ReadArg(0, 0), ReadResult("ok", <<>>), <<>>, <<>>)
    /\ nEvents = 1
    /\ nOps = 0

Read(op, address, count, result) ==
    /\ state = "idle"
    /\ last' = LastCall(op, ReadArg(address, count), result, <<>>, <<>>)
    /\ state' = IF result.res = "panic" THEN "panicked" ELSE "idle"
    /\ UNCHANGED <<breakpoints, threads, modules, osModules, osAlive, osCtx,
                   osMemory, event, frames, calls, nEvents, nOps>>

ReadMemoryArray(address, max_count) ==
    Read("read_memory_array", address, max_count,
         ReadResult("ok", read_memory_array(osMemory, address, max_count)))

ReadMemoryFullArray(address, count) ==
    Read("read_memory_full_array", address, count,
         read_memory_full_array(osMemory, address, count))

ReadMemoryData(address) ==
    LET r == read_memory_data(osMemory, address)
    IN  Read("read_memory_data", address, 1,
             ReadResult(r.res, IF r.res = "ok" THEN << r.value >> ELSE <<>>))

MemoryNext ==
    \/ \E address \in ReadAddrs \cup {80}, count \in 0 .. MaxRecords :
          ReadMemoryArray(address, count)
    \/ \E address \in ReadAddrs \cup {80}, count \in 0 .. MaxRecords :
          ReadMemoryFullArray(address, count)
    \/ \E address \in ReadAddrs \cup {80} : ReadMemoryData(address)

SpecMemory == MemoryInit /\ [][MemoryNext]_vars

\* The records that can be read at the address of the last read.
Readable ==
    IF last.arg.address \in DOMAIN osMemory THEN osMemory[last.arg.address]
    ELSE <<>>

\* C25: reading a value of fixed size (read_memory_data) or a full array
\* (read_memory_full_array) where the platform read gives nothing or too
\* little fails with the error value MemorySourceNotEnoughData, without a
\* panic and without partial data; read_memory_full_array succeeds only
\* when exactly count records were read.
C25_ShortReadIsNotEnoughData ==
    /\ last.op = "read_memory_full_array" =>
          IF Len(Readable) >= last.arg.count
          THEN last.ret = ReadResult("ok", SubSeq(Readable, 1, last.arg.count))
          ELSE last.ret = ReadResult("err", <<>>)
    /\ last.op = "read_memory_data" =>
          IF Len(Readable) >= 1
          THEN last.ret = ReadResult("ok", << Readable[1] >>)
          ELSE last.ret = ReadResult("err", <<>>) /\ state # "panicked"

---------------------------------------------------------------------------
(* parse_unwind_ops on its own (src/stack/stack_unwind.rs): streams of     *)
(* code slots made by encoding logical ops as the UNWIND_CODE format lays  *)
(* them out, whole, cut short, or followed by a slot of another op code.   *)

\* The frame offset of the UNWIND_INFO header, scaled: 2 * 16.
FrameOffset == 32

\* The logical ops of the streams, for a header that names frame_register:
\* each kind of op at the ends and around the middle of its ranges.
LogicalOps(frame_register) ==
    { UnwindCode(1, "PushNonVolatile", RegRbp, 0),
      UnwindCode(255, "PushNonVolatile", 15, 0),
      UnwindCode(4, "Alloc", 0, 8),
      UnwindCode(4, "Alloc", 0, 128),
      UnwindCode(7, "Alloc", 0, 136),
      UnwindCode(7, "Alloc", 0, 524280),
      UnwindCode(9, "Alloc", 0, 524288),
      UnwindCode(0, "Alloc", 0, 16744447),
      UnwindCode(2, "SetFpreg", frame_register, FrameOffset),
      UnwindCode(5, "SaveNonVolatile", 3, 16),
      UnwindCode(5, "SaveNonVolatile", 6, 70000),
      UnwindCode(6, "SaveXmm128", 6, 65535),
      UnwindCode(6, "SaveXmm128", 15, 65536) }

\* The slots of one logical op in the layout of UNWIND_CODE: the leading
\* slot, then the 16-bit slots of the value, low slot first.
EncodeOp(op) ==
    LET lo == op.amount % 65536
        hi == op.amount \div 65536
    IN  CASE op.op = "PushNonVolatile" ->
               << Slot(op.code_offset, UWOP_PUSH_NONVOL, op.reg) >>
          [] op.op = "Alloc" ->
               IF op.amount % 8 = 0 /\ op.amount >= 8 /\ op.amount <= 128
               THEN << Slot(op.code_offset, UWOP_ALLOC_SMALL,
                            (op.amount - 8) \div 8) >>
               ELSE IF op.amount % 8 = 0 /\ op.amount \div 8 < 65536
               THEN << Slot(op.code_offset, UWOP_ALLOC_LARGE, 0),
                       op.amount \div 8 >>
               ELSE << Slot(op.code_offset, UWOP_ALLOC_LARGE, 1), lo, hi >>
          [] op.op = "SetFpreg" ->
               << Slot(op.code_offset, UWOP_SET_FPREG, 0) >>
          [] op.op = "SaveNonVolatile" ->
               IF hi = 0
               THEN << Slot(op.code_offset, UWOP_SAVE_NONVOL, op.reg), lo >>
               ELSE << Slot(op.code_offset, UWOP_SAVE_NONVOL_FAR, op.reg),
                       lo, hi >>
          [] OTHER ->
               IF hi = 0
               THEN << Slot(op.code_offset, UWOP_SAVE_XMM128, op.reg), lo >>
               ELSE << Slot(op.code_offset, UWOP_SAVE_XMM128_FAR, op.reg),
                       lo, hi >>

RECURSIVE Encode(_)
Encode(ops) ==
    IF ops = <<>> THEN <<>> ELSE EncodeOp(Head(ops)) \o Encode(Tail(ops))

\* The sequences of at most n ops of a set.
RECURSIVE OpSeqs(_, _)
OpSeqs(ops, n) ==
    IF n = 0 THEN { <<>> }
    ELSE OpSeqs(ops, n - 1)
         \cup { Append(q, v) : q \in { x \in OpSeqs(ops, n - 1) : Len(x) = n - 1 },
                               v \in ops }

\* What may follow the encoded ops: nothing, or the leading slot of an op
\* that parse_unwind_ops has no arm for (UWOP_EPILOG 6, UWOP_PUSH_MACHFRAME
\* 10, op code 15, UWOP_ALLOC_LARGE with op_info 2).
StreamTails ==
    { <<>>, << Slot(3, 6, 0) >>, << Slot(3, UWOP_PUSH_MACHFRAME, 1) >>,
      << Slot(0, 15, 15) >>, << Slot(0, UWOP_ALLOC_LARGE, 2) >> }

\* The frame register of the header: a register, or a number that is none.
FrameRegisters == { RegRbp, 16 }

\* A stream: the slots of ops without the last cut slots, then tail.
ParseInput(ops, cut, tail, frame_register) ==
    [ops |-> ops, cut |-> cut, tail |-> tail, frame_register |-> frame_register]
ParseInputs ==
    { input \in
        { ParseInput(ops, cut, tail, fr) :
            ops \in OpSeqs(LogicalOps(RegRbp) \cup LogicalOps(16), MaxCodes),
            cut \in 0 .. 2, tail \in StreamTails, fr \in FrameRegisters } :
        /\ input.cut <= Len(Encode(input.ops))
        /\ input.cut > 0 => input.tail = <<>>
        /\ \A k \in DOMAIN input.ops :
              input.ops[k].op = "SetFpreg"
                 => input.ops[k].reg = input.frame_register }
CodeSlots(input) ==
    SubSeq(Encode(input.ops), 1, Len(Encode(input.ops)) - input.cut) \o input.tail

\* The target holds the code slots of one stream after an UNWIND_INFO header
\* that names the frame register.
ParseInit ==
    /\ breakpoints = NewBreakpointManager
    /\ threads = << 1 >>
    /\ modules = <<>>
    /\ osModules = {}
    /\ osAlive = {1}
    /\ osCtx = <<>>
    /\ event = None
    /\ frames = <<>>
    /\ state = "idle"
    /\ calls = <<>>
    /\ \E input \in ParseInputs :
          /\ osMemory = CodeSlots(input)
          /\ last = LastCall("run", input,
                             [res |-> "ok", ops |-> <<>>, err |-> <<>>],
                             CodeSlots(input), <<>>)
    /\ nEvents = 1
    /\ nOps = 0

\* parse_unwind_ops(&codes, frame_register, frame_offset)
ParseUnwindOps ==
    /\ state = "idle"
    /\ state' = "parsed"
    /\ last' = LastCall("parse_unwind_ops", last.arg,
                        parse_unwind_ops(osMemory, last.arg.frame_register,
                                         FrameOffset),
                        osMemory, <<>>)
    /\ UNCHANGED <<breakpoints, threads, modules, osModules, osAlive, osCtx,
                   osMemory, event, frames, calls, nEvents, nOps>>

ParseNext == ParseUnwindOps

SpecParse == ParseInit /\ [][ParseNext]_vars

---------------------------------------------------------------------------
(* Claims about parse_unwind_ops (checked under SpecParse). *)

Parsed == last.op = "parse_unwind_ops"

\* The extra slots that the op of a leading slot takes, by the op table.
ExtraSlots(op) == Len(EncodeOp(op)) - 1

\* The number of the ops of the input whose slots are all in the stream.
WholeOps(input) ==
    LET have == Len(Encode(input.ops)) - input.cut
        fit == { k \in 0 .. Len(input.ops) :
                   Len(Encode(SubSeq(input.ops, 1, k))) <= have }
    IN  CHOOSE k \in fit : \A j \in fit : j <= k

\* The op of the input that the cut leaves with some of its slots only.
CutOp(input) ==
    LET k == WholeOps(input)
    IN  IF Len(Encode(SubSeq(input.ops, 1, k)))
             = Len(Encode(input.ops)) - input.cut
        THEN None ELSE Some(input.ops[k + 1])

C32_ParseErrors ==
    Parsed =>
        LET input == last.arg
            whole == SubSeq(input.ops, 1, WholeOps(input))
            bad_register ==
                /\ input.frame_register \notin Registers
                /\ \E k \in DOMAIN whole : whole[k].op = "SetFpreg"
            tail_code == (input.tail[1] \div 256) % 16
        IN  /\ last.ret.res = "err" => last.ret.ops = <<>>
            /\ (last.ret.res = "err" /\ last.ret.err[1] = "IncompleteOp")
                  <=> (CutOp(input) # None /\ ~bad_register)
            /\ (CutOp(input) # None /\ ~bad_register) =>
                  last.ret.err[2]
                     = (EncodeOp(Unwrap(CutOp(input)))[1] \div 256) % 16
            /\ bad_register => last.ret.err = << "InvalidRegister",
                                                 input.frame_register >>
            /\ (input.tail # <<>> /\ ~bad_register) =>
                  last.ret.err = << "UnknownOp", tail_code >>
            /\ (CutOp(input) = None /\ input.tail = <<>> /\ ~bad_register) =>
                  /\ last.ret.res = "ok"
                  /\ last.ret.ops = whole

\* C32 witness: an op that takes two extra slots had one of them in the
\* array and was reported incomplete, after a whole op.
C32_Witness ==
    /\ Parsed
    /\ last.ret.res = "err"
    /\ last.ret.err[1] = "IncompleteOp"
    /\ last.arg.cut = 1
    /\ WholeOps(last.arg) = 1
    /\ ExtraSlots(last.arg.ops[2]) = 2

---------------------------------------------------------------------------
(* find_runtime_function on its own (src/stack.rs): the tables of an       *)
(* exception directory, sorted by BeginAddress, of functions that do not   *)
(* overlap and are not empty, and every rva around them.                   *)

\* The rvas of the images: functions lie in 1 .. LastRva, rvas are asked
\* for from 0 to LastRva + 1.
LastRva == 2 * MaxFunctions + 2

\* The tables of n functions that end at or before rva last.
RECURSIVE FunctionLists(_, _)
FunctionLists(n, last_rva) ==
    IF n = 0 THEN { <<>> }
    ELSE { Append(q, RUNTIME_FUNCTION(b, e, 0)) :
             q \in FunctionLists(n - 1, last_rva),
             b \in 1 .. last_rva, e \in 1 .. last_rva }
SortedFunctionLists ==
    { q \in UNION { FunctionLists(n, LastRva) : n \in 0 .. MaxFunctions } :
        /\ \A k \in DOMAIN q : q[k].BeginAddress < q[k].EndAddress
        /\ \A k \in DOMAIN q :
              k > 1 => q[k - 1].EndAddress <= q[k].BeginAddress }

SearchArg(addr, function_list) == [addr |-> addr, function_list |-> function_list]

SearchInit ==
    /\ breakpoints = NewBreakpointManager
    /\ threads = << 1 >>
    /\ modules = <<>>
    /\ osModules = {}
    /\ osAlive = {1}
    /\ osCtx = <<>>
    /\ event = None
    /\ frames = <<>>
    /\ state = "idle"
    /\ calls = <<>>
    /\ osMemory \in SortedFunctionLists
    /\ \E addr \in 0 .. LastRva + 1 :
          last = LastCall("run", SearchArg(addr, osMemory), None, <<>>, <<>>)
    /\ nEvents = 1
    /\ nOps = 0

\* find_runtime_function(rva, &functions)
FindRuntimeFunction ==
    /\ state = "idle"
    /\ state' = "searched"
    /\ last' = LastCall("find_runtime_function", last.arg,
                        find_runtime_function(last.arg.addr, osMemory),
                        <<>>, <<>>)
    /\ UNCHANGED <<breakpoints, threads, modules, osModules, osAlive, osCtx,
                   osMemory, event, frames, calls, nEvents, nOps>>

SearchNext == FindRuntimeFunction

SpecSearch == SearchInit /\ [][SearchNext]_vars

---------------------------------------------------------------------------
(* Claims about find_runtime_function (checked under SpecSearch). *)

Searched == last.op = "find_runtime_function"

\* The entries of the table whose range holds the rva.
Holding(function_list, rva) ==
    { k \in DOMAIN function_list :
        /\ function_list[k].BeginAddress <= rva
        /\ rva < function_list[k].EndAddress }

SearchedOutside ==
    /\ Searched
    /\ last.ret = None
    /\ Len(last.arg.function_list) = 2
    /\ last.arg.function_list[1].EndAddress <= last.arg.addr
    /\ last.arg.addr < last.arg.function_list[2].BeginAddress

---------------------------------------------------------------------------
(* The bitfield splitter on its own: split_up! applied to 8- and 16-bit     *)
(* values with field lengths that sum to the value's width.                *)
---------------------------------------------------------------------------

\* Lists of n field lengths, each shorter than the width, that sum to total.
RECURSIVE FieldLengths(_, _, _)
FieldLengths(width, total, n) ==
    IF n = 0 THEN IF total = 0 THEN { <<>> } ELSE {}
    ELSE UNION { { << len >> \o rest :
                     rest \in FieldLengths(width, total - len, n - 1) } :
                 len \in { l \in 1 .. width - 1 : l <= total } }

\* Every u8; of the u16 the single bits, the low-bit runs, the values with
\* one bit clear and two mixed patterns.
SplitValues(width) ==
    IF width = 8 THEN 0 .. 255
    ELSE { 2 ^ k : k \in 0 .. 15 } \cup { 2 ^ k - 1 : k \in 0 .. 16 }
           \cup { 65535 - 2 ^ k : k \in 0 .. 15 } \cup { 42435, 4660 }

SplitArg(value, width, lens) ==
    [value |-> value, width |-> width, lens |-> lens]

SplitInit ==
    /\ breakpoints = NewBreakpointManager
    /\ threads = << 1 >>
    /\ modules = <<>>
    /\ osModules = {}
    /\ osAlive = {1}
    /\ osCtx = <<>>
    /\ event = None
    /\ frames = <<>>
    /\ state = "idle"
    /\ calls = <<>>
    /\ \E width \in { 8, 16 } :
       \E value \in SplitValues(width) :
       \E n \in 1 .. MaxFields :
       \E lens \in FieldLengths(width, width, n) :
          /\ osMemory = value
          /\ last = LastCall("run", SplitArg(value, width, lens), <<>>,
                             value, <<>>)
    /\ nEvents = 1
    /\ nOps = 0

\* let (..) = split_up!(value => lens)
SplitUp ==
    /\ state = "idle"
    /\ state' = "split"
    /\ last' = LastCall("split_up", last.arg,
                        split_up(osMemory, last.arg.lens), osMemory, <<>>)
    /\ UNCHANGED <<breakpoints, threads, modules, osModules, osAlive, osCtx,
                   osMemory, event, frames, calls, nEvents, nOps>>

SplitNext == SplitUp

SpecSplit == SplitInit /\ [][SplitNext]_vars

---------------------------------------------------------------------------
(* Claims about the bitfield splitter (checked under SpecSplit)            *)
---------------------------------------------------------------------------

Split == state = "split" /\ last.op = "split_up"

\* a | b on naturals.
RECURSIVE BitOr(_, _)
BitOr(a, b) ==
    IF a = 0 THEN b
    ELSE IF b = 0 THEN a
    ELSE (IF a % 2 = 1 \/ b % 2 = 1 THEN 1 ELSE 0)
           + 2 * BitOr(a \div 2, b \div 2)

\* The fields, each shifted left by the sum of the lengths before it, OR-ed.
RECURSIVE Recombine(_, _, _)
Recombine(fields, lens, shift) ==
    IF fields = <<>> THEN 0
    ELSE BitOr(Head(fields) * (2 ^ shift),
               Recombine(Tail(fields), Tail(lens), shift + Head(lens)))

\* C38: split_up!(v => l1, l2, ...) returns the fields of v from low bits to
\* high bits: for an 8- or 16-bit v and lengths, each shorter than the width,
\* that sum to the width, there is one field per length, each field fits its
\* length, and shifting each field left by the sum of the lengths before it
\* and OR-ing the results gives v back.
C38_SplitUpRecombines ==
    Split =>
        /\ Len(last.ret) = Len(last.arg.lens)
        /\ \A k \in 1 .. Len(last.ret) : last.ret[k] < 2 ^ last.arg.lens[k]
        /\ Recombine(last.ret, last.arg.lens, 0) = last.arg.value

\* A 16-bit code slot split 8, 4, 4 with three different non-zero fields.
C38_Witness ==
    /\ Split
    /\ last.arg.value = 42435
    /\ last.arg.lens = << 8, 4, 4 >>
    /\ last.ret = << 195, 5, 10 >>

=============================================================================
